---- MODULE Spec2Model ----
(***************************************************************************)
(* Transcription pipeline of the interview overlay:                        *)
(*   - electron/TranscriptionHelper.ts : provider clients, transcript      *)
(*     store, question extraction, replyToQuestion                         *)
(*   - src/hooks/useTranscription.ts   : the recognition hook (second      *)
(*     definition in the file, the one taking autoStart)                   *)
(* Strings are sequences of one-character strings.                         *)
(***************************************************************************)
EXTENDS Integers, Sequences, FiniteSets, Bags, TLC

\* ------------------------------------------------------------------ bounds
MaxTranscriptLen == 6
MaxOutstanding == 1
MaxOverlap == 2

\* ------------------------------------------------------------------ state
VARIABLES
  config,           \* what configHelper.loadConfig() returns
  openaiClient,     \* Null, or the key the client was built with
  geminiApiKey,
  anthropicClient,
  transcript,       \* TranscriptionHelper.transcript
  outstanding,      \* bag of provider requests awaiting their response
  observed,         \* <<v>>: getTranscript() returned v since the last clear
  lastMain,         \* the main-process operation that ran last
  supported,        \* window.SpeechRecognition || window.webkitSpeechRecognition
  autoStart,        \* the hook's autoStart argument at the last render
  recognitionRef,   \* recognitionRef.current: 0 for null, else an instance
  created,          \* number of SpeechRecognition objects constructed
  engine,           \* state of each SpeechRecognition object
  closure,          \* autoStart and isListening captured by each effect run
  isListening,      \* React state
  shouldRestartRef, \* shouldRestartRef.current
  error,            \* React state
  timers,           \* bag of pending setTimeout callbacks
  denied,           \* a 'not-allowed' error came after the last startListening()
  stopWatch,        \* instances stopped by stopListening() whose end is pending
  errWatch,         \* the recoverable error whose end event is pending
  lastHook,         \* the renderer operation that ran last
  hookTranscript,   \* the hook's transcript (React state)
  appendCalls,      \* electronAPI.appendTranscript() invocations in flight
  extracted,        \* results extractQuestion() has returned so far
  transcriptionLanguage, \* the hook's transcriptionLanguage argument
  languageRef,      \* languageRef.current
  lang,             \* the lang property of each SpeechRecognition object
  sessionActive,    \* SubscribedApp state
  showSessionDialog,
  hasShownStartToast, \* hasShownStartToast.current
  toasts,           \* titles of the toasts the last step showed
  mainWindow,       \* state.mainWindow: "null" or "open"
  isWindowVisible,  \* state.isWindowVisible
  winVisible,       \* whether the BrowserWindow is shown on screen
  winFocused,       \* whether the BrowserWindow has the focus
  opacity,          \* the BrowserWindow's opacity, in hundredths
  lastWindow,       \* the window operation that ran last
  isManuallyResized, \* state.isManuallyResized
  windowSize,       \* state.windowSize, width and height 0 for null
  winBounds,        \* width and height of the BrowserWindow
  resizePending,    \* a 'resize' event of the window awaits its listener
  userResized       \* the user has dragged an edge or used a resize shortcut

mainVars ==
  <<config, openaiClient, geminiApiKey, anthropicClient, transcript,
    outstanding, observed, lastMain>>

hookVars ==
  <<supported, autoStart, recognitionRef, created, engine, closure,
    isListening, shouldRestartRef, error, timers, denied, stopWatch,
    errWatch, lastHook>>

pipeVars == <<hookTranscript, appendCalls, extracted>>

langVars == <<transcriptionLanguage, languageRef, lang>>

appVars == <<sessionActive, showSessionDialog, hasShownStartToast, toasts>>

sizeVars ==
  <<isManuallyResized, windowSize, winBounds, resizePending, userResized>>

windowVars ==
  <<mainWindow, isWindowVisible, winVisible, winFocused, opacity, lastWindow,
    sizeVars>>

vars == <<mainVars, hookVars, pipeVars, langVars, appVars, windowVars>>

\* ------------------------------------------------------- string primitives
Null == "null"

IsWs(c) == c \in {" ", "\t", "\n", "\r"}

IsPunct(c) == c \in {".", "!", "?"}

Upper == <<"A","B","C","D","E","F","G","H","I","J","K","L","M",
           "N","O","P","Q","R","S","T","U","V","W","X","Y","Z">>

LowerTab == <<"a","b","c","d","e","f","g","h","i","j","k","l","m",
              "n","o","p","q","r","s","t","u","v","w","x","y","z">>

Lower(c) ==
  IF \E k \in 1..26 : Upper[k] = c
    THEN LowerTab[CHOOSE k \in 1..26 : Upper[k] = c]
    ELSE c

RECURSIVE TrimLeft(_)
TrimLeft(s) ==
  IF s = <<>> THEN <<>>
  ELSE IF IsWs(Head(s)) THEN TrimLeft(Tail(s)) ELSE s

RECURSIVE TrimRight(_)
TrimRight(s) ==
  IF s = <<>> THEN <<>>
  ELSE IF IsWs(s[Len(s)]) THEN TrimRight(SubSeq(s, 1, Len(s) - 1)) ELSE s

Trim(s) == TrimRight(TrimLeft(s))

StartsWith(s, w) ==
  /\ Len(w) <= Len(s)
  /\ \A k \in 1..Len(w) : Lower(s[k]) = w[k]

EndsWith(s, c) == s # <<>> /\ s[Len(s)] = c

Includes(s, c) == \E k \in 1..Len(s) : s[k] = c

IsPrefix(s, t) == Len(s) <= Len(t) /\ SubSeq(t, 1, Len(s)) = s

\* String.prototype.split(/[.!?]+/): the pieces between maximal runs of
\* punctuation, empty pieces at either end included.
RECURSIVE SplitFrom(_, _, _, _)
SplitFrom(s, k, cur, out) ==
  IF k > Len(s) THEN Append(out, cur)
  ELSE IF IsPunct(s[k])
    THEN IF k > 1 /\ IsPunct(s[k - 1])
           THEN SplitFrom(s, k + 1, cur, out)
           ELSE SplitFrom(s, k + 1, <<>>, Append(out, cur))
    ELSE SplitFrom(s, k + 1, Append(cur, s[k]), out)

Split(s) == SplitFrom(s, 1, <<>>, <<>>)

NonBlank(s) == Len(Trim(s)) > 0

\* Array.prototype.join(". ") over pieces lo..hi of a list
RECURSIVE JoinRange(_, _, _)
JoinRange(list, lo, hi) ==
  IF lo > hi THEN <<>>
  ELSE IF lo = hi THEN list[lo]
  ELSE list[lo] \o <<".", " ">> \o JoinRange(list, lo + 1, hi)

Max(a, b) == IF a >= b THEN a ELSE b

\* ------------------------------------------------------ question extraction
englishQuestionWords ==
  { <<"w","h","a","t">>, <<"w","h","e","r","e">>, <<"w","h","e","n">>,
    <<"w","h","o">>, <<"w","h","y">>, <<"h","o","w">>, <<"c","a","n">>,
    <<"c","o","u","l","d">>, <<"w","o","u","l","d">>,
    <<"s","h","o","u","l","d">>, <<"i","s">>, <<"a","r","e">>, <<"d","o">>,
    <<"d","o","e","s">>, <<"d","i","d">>, <<"w","i","l","l">>,
    <<"h","a","v","e">>, <<"h","a","s">>, <<"t","e","l","l">>,
    <<"e","x","p","l","a","i","n">>, <<"d","e","s","c","r","i","b","e">> }

\* the four letters with diacritics are written z', o', l/, s'
polishQuestionWords ==
  { <<"c","o">>, <<"g","d","z","i","e">>, <<"k","i","e","d","y">>,
    <<"k","t","o">>, <<"d","l","a","c","z","e","g","o">>, <<"j","a","k">>,
    <<"c","z","y">>, <<"m","o","z'","e","s","z">>,
    <<"m","o'","g","l/","b","y","s'">>, <<"p","o","w","i","e","d","z">>,
    <<"w","y","j","a","s'","n","i","j">>, <<"o","p","i","s","z">>,
    <<"c","z","y","m">>, <<"j","a","k","i">>, <<"j","a","k","a">>,
    <<"j","a","k","i","e">>, <<"j","a","k","i","c","h">>,
    <<"j","a","k","i","m">> }

IsQuestionSentence(sentence) ==
  \/ Includes(sentence, "?")
  \/ \E w \in englishQuestionWords : StartsWith(sentence, w)
  \/ \E w \in polishQuestionWords : StartsWith(sentence, w)

WithQuestionMark(t) == IF EndsWith(t, "?") THEN t ELSE Append(t, "?")

NoQuestion == [isNull |-> TRUE, text |-> <<>>]

Question(t) == [isNull |-> FALSE, text |-> t]

\* extraction whose first test is !transcript alone
extractQuestionNoTrim(t) ==
  IF t = <<>> THEN NoQuestion
  ELSE
    LET sentences == SelectSeq(Split(t), NonBlank)
        n == Len(sentences)
        hits == { i \in 1..n : IsQuestionSentence(Trim(sentences[i])) }
    IN IF hits # {}
         THEN LET i == CHOOSE h \in hits : \A g \in hits : g <= h
              IN Question(WithQuestionMark(
                   Trim(JoinRange(sentences, Max(1, i - 2), i))))
       ELSE IF n > 0
         THEN Question(WithQuestionMark(
                Trim(JoinRange(sentences, Max(1, n - 2), n))))
       ELSE Question(t)

\* extraction that scans from the oldest sentence
extractQuestionFirstHit(t) ==
  IF t = <<>> \/ Len(Trim(t)) = 0 THEN NoQuestion
  ELSE
    LET sentences == SelectSeq(Split(t), NonBlank)
        n == Len(sentences)
        hits == { i \in 1..n : IsQuestionSentence(Trim(sentences[i])) }
    IN IF hits # {}
         THEN LET i == CHOOSE h \in hits : \A g \in hits : g >= h
              IN Question(WithQuestionMark(
                   Trim(JoinRange(sentences, Max(1, i - 2), i))))
       ELSE IF n > 0
         THEN Question(WithQuestionMark(
                Trim(JoinRange(sentences, Max(1, n - 2), n))))
       ELSE Question(t)

\* extraction whose fallback is sentences.slice(-2)
extractQuestionLastTwo(t) ==
  IF t = <<>> \/ Len(Trim(t)) = 0 THEN NoQuestion
  ELSE
    LET sentences == SelectSeq(Split(t), NonBlank)
        n == Len(sentences)
        hits == { i \in 1..n : IsQuestionSentence(Trim(sentences[i])) }
    IN IF hits # {}
         THEN LET i == CHOOSE h \in hits : \A g \in hits : g <= h
              IN Question(WithQuestionMark(
                   Trim(JoinRange(sentences, Max(1, i - 2), i))))
       ELSE IF n > 0
         THEN Question(WithQuestionMark(
                Trim(JoinRange(sentences, Max(1, n - 1), n))))
       ELSE Question(t)

\* extraction that reads the last sentence before testing there is one
extractQuestionThrows(t) ==
  IF t = <<>> \/ Len(Trim(t)) = 0 THEN NoQuestion
  ELSE
    LET sentences == SelectSeq(Split(t), NonBlank)
        n == Len(sentences)
        hits == { i \in 1..n : IsQuestionSentence(Trim(sentences[i])) }
    IN IF hits # {}
         THEN LET i == CHOOSE h \in hits : \A g \in hits : g <= h
              IN Question(WithQuestionMark(
                   Trim(JoinRange(sentences, Max(1, i - 2), i))))
       ELSE IF n > 0
         THEN Question(WithQuestionMark(
                Trim(JoinRange(sentences, Max(1, n - 2), n))))
       ELSE [isNull |-> FALSE, text |-> <<>>, thrown |-> TRUE]

\* extraction that tests the word list of the configured language only
extractQuestionByLanguage(t) ==
  IF t = <<>> \/ Len(Trim(t)) = 0 THEN NoQuestion
  ELSE
    LET sentences == SelectSeq(Split(t), NonBlank)
        n == Len(sentences)
        words == IF config.transcriptionLanguage = "pl-PL"
                   THEN polishQuestionWords
                   ELSE englishQuestionWords
        hits == { i \in 1..n :
                    \/ Includes(Trim(sentences[i]), "?")
                    \/ \E w \in words : StartsWith(Trim(sentences[i]), w) }
    IN IF hits # {}
         THEN LET i == CHOOSE h \in hits : \A g \in hits : g <= h
              IN Question(WithQuestionMark(
                   Trim(JoinRange(sentences, Max(1, i - 2), i))))
       ELSE IF n > 0
         THEN Question(WithQuestionMark(
                Trim(JoinRange(sentences, Max(1, n - 2), n))))
       ELSE Question(t)

extractQuestion(t) ==
  IF t = <<>> \/ Len(Trim(t)) = 0 THEN NoQuestion
  ELSE
    LET sentences == SelectSeq(Split(t), NonBlank)
        n == Len(sentences)
        hits == { i \in 1..n : IsQuestionSentence(Trim(sentences[i])) }
    IN IF hits # {}
         THEN LET i == CHOOSE h \in hits : \A g \in hits : g <= h
              IN Question(WithQuestionMark(
                   Trim(JoinRange(sentences, Max(1, i - 2), i))))
       ELSE IF n > 0
         THEN Question(WithQuestionMark(
                Trim(JoinRange(sentences, Max(1, n - 2), n))))
       ELSE Question(t)

\* transcript.split(/[.!?]+/).filter(s => s.trim().length > 0)
Sentences(t) == SelectSeq(Split(t), NonBlank)

\* the indexes i at which the test of lines 124-126 succeeds
QuestionIndexes(t) ==
  { i \in 1..Len(Sentences(t)) : IsQuestionSentence(Trim(Sentences(t)[i])) }

\* ------------------------------------------------------------ configuration
Providers == {"openai", "gemini", "anthropic"}

\* apiProvider as stored: one of the three names, or any other value
ProviderValues == Providers \cup {"other"}

\* apiKey as stored: "" stands for an absent or empty key (both falsy)
KeyValues == {"", "k1"}

\* the provider and the key vary, the other fields are the stored defaults
Configs ==
  [apiProvider : ProviderValues, apiKey : KeyValues,
   transcriptionLanguage : {"en-US"}, solutionModel : {""}]

\* a key is present, the provider and the transcription language vary; ""
\* stands for an unset language
LanguageConfigs ==
  [apiProvider : Providers, apiKey : {"k1"},
   transcriptionLanguage : {"", "en-US", "pl-PL", "de-DE"},
   solutionModel : {""}]

\* Recognized segments handed to appendToTranscript
Segments == { <<"h","i">>, <<"i","s","?">>, <<" ">> }

\* configurations with the fields replyToQuestion() reads besides the
\* provider and the key: two that differ in provider, model and language
ReplyConfigs ==
  { [apiProvider |-> "openai", apiKey |-> "k1",
     transcriptionLanguage |-> "en-US", solutionModel |-> "gpt-4o"],
    [apiProvider |-> "gemini", apiKey |-> "k1",
     transcriptionLanguage |-> "pl-PL", solutionModel |-> "gemini-2.0-flash"] }

\* ------------------------------------------- transcripts given to extraction
MaxPieces == 4
MaxSentences == 5

RECURSIVE Concat(_)
Concat(strings) ==
  IF strings = <<>> THEN <<>> ELSE Head(strings) \o Concat(Tail(strings))

\* a letter that starts no question word, an English question word, a Polish
\* one (capitalised), two of the separators, a blank
Pieces == { <<"a">>, <<"i","s">>, <<"C","o">>, <<".">>, <<"?">>, <<" ">> }

\* every transcript of at most MaxPieces pieces
PieceTranscripts ==
  { Concat(ps) : ps \in UNION { [1..n -> Pieces] : n \in 0..MaxPieces } }

SentenceBodies == { <<"a">>, <<"b">>, <<"i","s">> }

Terminators == { <<".">>, <<"?"," ">> }

\* every transcript of at most MaxSentences sentences, each followed by the
\* same terminator
SentenceTranscripts ==
  { Concat([k \in 1..Len(bs) |-> bs[k] \o term]) :
      bs \in UNION { [1..n -> SentenceBodies] : n \in 1..MaxSentences },
      term \in Terminators }

ExtractInputs == PieceTranscripts \cup SentenceTranscripts

Truthy(k) == k # "" /\ k # Null

\* configHelper.loadConfig(): the configuration as last saved
loadConfig == config

\* initializeAIClient() whose anthropic branch leaves openaiClient alone
initializeAIClientNoReset(cfg, old) ==
  IF cfg.apiProvider = "openai" THEN
    IF Truthy(cfg.apiKey)
      THEN [openai |-> cfg.apiKey, gemini |-> Null, anthropic |-> Null]
      ELSE [openai |-> Null, gemini |-> Null, anthropic |-> Null]
  ELSE IF cfg.apiProvider = "gemini" THEN
    [openai |-> Null,
     gemini |-> IF Truthy(cfg.apiKey) THEN cfg.apiKey ELSE Null,
     anthropic |-> Null]
  ELSE IF cfg.apiProvider = "anthropic" THEN
    [openai |-> old.openai,
     gemini |-> Null,
     anthropic |-> IF Truthy(cfg.apiKey) THEN cfg.apiKey ELSE Null]
  ELSE old

\* initializeAIClient() that keeps the OpenAI client it has when the key is
\* absent or when a client already exists
initializeAIClientStale(cfg, old) ==
  IF cfg.apiProvider = "openai" THEN
    IF Truthy(cfg.apiKey) /\ old.openai = Null
      THEN [openai |-> cfg.apiKey, gemini |-> Null, anthropic |-> Null]
      ELSE [openai |-> old.openai, gemini |-> Null, anthropic |-> Null]
  ELSE IF cfg.apiProvider = "gemini" THEN
    [openai |-> Null,
     gemini |-> IF Truthy(cfg.apiKey) THEN cfg.apiKey ELSE Null,
     anthropic |-> Null]
  ELSE IF cfg.apiProvider = "anthropic" THEN
    [openai |-> Null,
     gemini |-> Null,
     anthropic |-> IF Truthy(cfg.apiKey) THEN cfg.apiKey ELSE Null]
  ELSE old

\* initializeAIClient(): the client fields after reading cfg, given the
\* fields before
initializeAIClient(cfg, old) ==
  IF cfg.apiProvider = "openai" THEN
    IF Truthy(cfg.apiKey)
      THEN [openai |-> cfg.apiKey, gemini |-> Null, anthropic |-> Null]
      ELSE [openai |-> Null, gemini |-> Null, anthropic |-> Null]
  ELSE IF cfg.apiProvider = "gemini" THEN
    [openai |-> Null,
     gemini |-> IF Truthy(cfg.apiKey) THEN cfg.apiKey ELSE Null,
     anthropic |-> Null]
  ELSE IF cfg.apiProvider = "anthropic" THEN
    [openai |-> Null,
     gemini |-> Null,
     anthropic |-> IF Truthy(cfg.apiKey) THEN cfg.apiKey ELSE Null]
  ELSE old

NoClients == [openai |-> Null, gemini |-> Null, anthropic |-> Null]

Clients == [openai |-> openaiClient, gemini |-> geminiApiKey,
            anthropic |-> anthropicClient]

SetClients(c) ==
  /\ openaiClient' = c.openai
  /\ geminiApiKey' = c.gemini
  /\ anthropicClient' = c.anthropic

Op(name) == [op |-> name]

\* constructor: field initialisers, then initializeAIClient()
InitMain ==
  /\ config \in Configs
  /\ LET c == initializeAIClient(loadConfig, NoClients)
     IN /\ openaiClient = c.openai
        /\ geminiApiKey = c.gemini
        /\ anthropicClient = c.anthropic
  /\ transcript = <<>>
  /\ outstanding = EmptyBag
  /\ observed = <<>>
  /\ lastMain = Op("constructor")
  /\ extracted = {}

\* the configuration store saves a new configuration and emits
\* 'config-updated'; the listener registered in the constructor runs
ConfigUpdated(cfg) ==
  /\ config' = cfg
  /\ SetClients(initializeAIClient(loadConfig', Clients))
  /\ lastMain' = Op("config-updated")
  /\ UNCHANGED <<transcript, outstanding, observed>>
  /\ UNCHANGED <<hookVars, langVars, appVars, windowVars, pipeVars>>

getTranscript ==
  /\ observed' = <<transcript>>
  /\ lastMain' = Op("getTranscript")
  /\ UNCHANGED <<hookVars, langVars, appVars, windowVars, pipeVars>>
  /\ UNCHANGED <<config, openaiClient, geminiApiKey, anthropicClient,
                 transcript, outstanding>>

\* an append that puts the new text in front
AppendedInFront(t, text) == text \o (IF t # <<>> THEN <<" ">> ELSE <<>>) \o t

\* an append that skips a segment equal to the end of the transcript
AppendedDeduplicated(t, text) ==
  IF Len(text) <= Len(t) /\ SubSeq(t, Len(t) - Len(text) + 1, Len(t)) = text
    THEN t
    ELSE t \o (IF t # <<>> THEN <<" ">> ELSE <<>>) \o text

\* this.transcript += (this.transcript ? " " : "") + text
Appended(t, text) == t \o (IF t # <<>> THEN <<" ">> ELSE <<>>) \o text

appendToTranscript(text) ==
  /\ Len(transcript) + 1 + Len(text) <= MaxTranscriptLen
  /\ transcript' = Appended(transcript, text)
  /\ lastMain' = [op |-> "appendToTranscript", text |-> text]
  /\ UNCHANGED <<hookVars, langVars, appVars, windowVars, pipeVars>>
  /\ UNCHANGED <<config, openaiClient, geminiApiKey, anthropicClient,
                 outstanding, observed>>

\* a clear that leaves a blank behind when the transcript held text
clearTranscriptLeavesBlank ==
  /\ transcript' = IF transcript = <<>> THEN <<>> ELSE <<" ">>
  /\ observed' = <<>>
  /\ lastMain' = [op |-> "clearTranscript", heldText |-> transcript # <<>>]
  /\ UNCHANGED <<hookVars, langVars, appVars, windowVars, pipeVars>>
  /\ UNCHANGED <<config, openaiClient, geminiApiKey, anthropicClient,
                 outstanding>>

\* a clear that also drops the provider calls in flight
clearTranscriptCancelling ==
  /\ transcript' = <<>>
  /\ observed' = <<>>
  /\ outstanding' = EmptyBag
  /\ lastMain' = [op |-> "clearTranscript", heldText |-> transcript # <<>>]
  /\ UNCHANGED <<hookVars, langVars, appVars, windowVars, pipeVars>>
  /\ UNCHANGED <<config, openaiClient, geminiApiKey, anthropicClient>>

\* this.transcript = ""; heldText records whether the transcript held text
clearTranscript ==
  /\ transcript' = <<>>
  /\ observed' = <<>>
  /\ lastMain' = [op |-> "clearTranscript", heldText |-> transcript # <<>>]
  /\ UNCHANGED <<hookVars, langVars, appVars, windowVars, pipeVars>>
  /\ UNCHANGED <<config, openaiClient, geminiApiKey, anthropicClient,
                 outstanding>>

\* a dispatch that tests the configured provider only, not its client
ReplyTargetNoClientCheck(cfg, c) ==
  IF cfg.apiProvider \in Providers THEN cfg.apiProvider ELSE "none"

\* a dispatch that falls back to whichever client exists
ReplyTargetFallback(cfg, c) ==
  IF cfg.apiProvider = "openai" /\ Truthy(c.openai) THEN "openai"
  ELSE IF cfg.apiProvider = "gemini" /\ Truthy(c.gemini) THEN "gemini"
  ELSE IF cfg.apiProvider = "anthropic" /\ Truthy(c.anthropic) THEN "anthropic"
  ELSE IF Truthy(c.openai) THEN "openai"
  ELSE IF Truthy(c.gemini) THEN "gemini"
  ELSE IF Truthy(c.anthropic) THEN "anthropic"
  ELSE "none"

\* replyToQuestion() up to its await: the provider the request goes to, or
\* the error it throws
ReplyTarget(cfg, c) ==
  IF cfg.apiProvider = "openai" /\ Truthy(c.openai) THEN "openai"
  ELSE IF cfg.apiProvider = "gemini" /\ Truthy(c.gemini) THEN "gemini"
  ELSE IF cfg.apiProvider = "anthropic" /\ Truthy(c.anthropic) THEN "anthropic"
  ELSE "none"

ClientKey(c, p) ==
  IF p = "openai" THEN c.openai
  ELSE IF p = "gemini" THEN c.gemini
  ELSE c.anthropic

\* config.solutionModel || "gpt-4o-mini"
SolutionModel(cfg) ==
  IF Truthy(cfg.solutionModel) THEN cfg.solutionModel ELSE "gpt-4o-mini"

\* the literals of the create() calls: max_tokens: 1000, and
\* temperature: 0.7 counted in tenths
MaxTokens == 1000
Temperature == 7

\* the model named in the request: the Anthropic branch sends
\* model || "claude-3-5-sonnet-20241022", the other two send model as it is
RequestModel(provider, model) ==
  IF provider = "anthropic"
    THEN IF Truthy(model) THEN model ELSE "claude-3-5-sonnet-20241022"
    ELSE model

\* the generation parameters each branch puts in its request (a field the
\* branch does not write is the empty set): the OpenAI call carries max_tokens
\* and temperature, the Anthropic call max_tokens only, and the body posted
\* to Gemini holds nothing but contents
RequestParams(provider) ==
  IF provider = "openai"
    THEN [max_tokens |-> {MaxTokens}, temperature |-> {Temperature}]
  ELSE IF provider = "anthropic"
    THEN [max_tokens |-> {MaxTokens}, temperature |-> {}]
  ELSE [max_tokens |-> {}, temperature |-> {}]

\* config.transcriptionLanguage || "en-US"
TranscriptionLang(cfg) ==
  IF Truthy(cfg.transcriptionLanguage)
    THEN cfg.transcriptionLanguage
    ELSE "en-US"

PolishPrompt ==
  "Jestes pomocnym asystentem odpowiadajacym na pytania rekrutacyjne. Udzielaj jasnych, zwiezlych i dokladnych odpowiedzi po polsku."

EnglishPrompt ==
  "You are a helpful assistant answering interview questions. Provide clear, concise, and accurate answers."

\* a choice of prompt that is Polish for everything but en-US
SystemPromptUnlessEnglish(cfg) ==
  IF cfg.transcriptionLanguage = "en-US" THEN EnglishPrompt ELSE PolishPrompt

\* isPolish ? (Polish prompt) : (English prompt)
SystemPrompt(cfg) ==
  IF TranscriptionLang(cfg) = "pl-PL" THEN PolishPrompt ELSE EnglishPrompt

\* a request that joins an identical one already in flight
IssuedUnlessInFlight(req) ==
  IF BagIn(req, outstanding) THEN outstanding ELSE outstanding (+) SetToBag({req})

\* the awaited create()/post() call: one more request in flight
Issued(req) == outstanding (+) SetToBag({req})

replyToQuestion ==
  LET question == extractQuestion(transcript)
      target == ReplyTarget(loadConfig, Clients)
  IN /\ IF question.isNull
          THEN /\ lastMain' = [op |-> "replyToQuestion",
                               error |-> "No question found in transcript",
                               sent |-> {}]
               /\ UNCHANGED outstanding
        ELSE IF target = "none"
          THEN /\ lastMain' =
                    [op |-> "replyToQuestion",
                     error |->
                       "No AI client available or API key not configured",
                     sent |-> {}]
               /\ UNCHANGED outstanding
        ELSE LET req == [provider |-> target,
                         key |-> ClientKey(Clients, target),
                         question |-> question.text,
                         model |->
                           RequestModel(target, SolutionModel(loadConfig)),
                         params |-> RequestParams(target),
                         systemPrompt |-> SystemPrompt(loadConfig)]
             IN /\ outstanding' = Issued(req)
                /\ lastMain' = [op |-> "replyToQuestion", error |-> "",
                                sent |-> {req}]
     /\ UNCHANGED <<hookVars, langVars, appVars, windowVars, pipeVars>>
     /\ UNCHANGED <<config, openaiClient, geminiApiKey, anthropicClient,
                    transcript, observed>>

\* JavaScript values of a provider's response body
Undefined == [kind |-> "undefined"]
JsNull == [kind |-> "null"]
JsString(v) == [kind |-> "string", value |-> v]
JsArray(items) == [kind |-> "array", items |-> items]

IsNullish(v) == v.kind \in {"undefined", "null"}

\* the values `v || d` replaces by d
Falsy(v) == IsNullish(v) \/ (v.kind = "string" /\ v.value = "")

\* arr[0]
First(arr) == IF arr.items = <<>> THEN Undefined ELSE arr.items[1]

NoAnswerGenerated == "No answer generated"

Returned(answer) == [kind |-> "returned", answer |-> answer]
Thrown(e) == [kind |-> "thrown", error |-> e]

\* reading a property of undefined or null
TypeError == "TypeError"

\* responses of the chat-completions call with no answer text in them
OpenAIAbsent ==
  { [choices |-> Undefined],
    [choices |-> JsArray(<<>>)],
    [choices |-> JsArray(<<[kind |-> "object", message |-> Undefined]>>)],
    [choices |-> JsArray(<<[kind |-> "object",
                            message |-> [kind |-> "object", content |-> JsNull]]>>)],
    [choices |-> JsArray(<<[kind |-> "object",
                            message |-> [kind |-> "object", content |-> JsString("")]]>>)] }

GeminiPart(text) == [kind |-> "object", text |-> text]
GeminiCandidate(parts) ==
  [kind |-> "object", content |-> [kind |-> "object", parts |-> parts]]
GeminiData(candidates) == [data |-> [kind |-> "object", candidates |-> candidates]]

\* response bodies of generateContent with no answer text in them
GeminiAbsent ==
  { GeminiData(Undefined),
    GeminiData(JsArray(<<>>)),
    GeminiData(JsArray(<<[kind |-> "object", content |-> Undefined]>>)),
    GeminiData(JsArray(<<GeminiCandidate(Undefined)>>)),
    GeminiData(JsArray(<<GeminiCandidate(JsArray(<<>>))>>)),
    GeminiData(JsArray(<<GeminiCandidate(JsArray(<<GeminiPart(Undefined)>>))>>)),
    GeminiData(JsArray(<<GeminiCandidate(JsArray(<<GeminiPart(JsString(""))>>))>>)) }

AnthropicBlock(type, text) == [kind |-> "object", type |-> JsString(type), text |-> text]

\* responses of the messages call with no answer text in them
AnthropicAbsent ==
  { [content |-> Undefined],
    [content |-> JsArray(<<>>)],
    [content |-> JsArray(<<AnthropicBlock("tool_use", Undefined)>>)],
    [content |-> JsArray(<<AnthropicBlock("text", Undefined)>>)],
    [content |-> JsArray(<<AnthropicBlock("text", JsString(""))>>)] }

AbsentResponses(provider) ==
  CASE provider = "openai" -> OpenAIAbsent
    [] provider = "gemini" -> GeminiAbsent
    [] OTHER -> AnthropicAbsent

Responses(provider) ==
  CASE provider = "openai" -> OpenAIAbsent \cup
         { [choices |-> JsArray(<<[kind |-> "object",
                                   message |-> [kind |-> "object", content |-> JsString("answer")]]>>)] }
    [] provider = "gemini" -> GeminiAbsent \cup
         { GeminiData(JsArray(<<GeminiCandidate(JsArray(<<GeminiPart(JsString("answer"))>>))>>)) }
    [] OTHER -> AnthropicAbsent \cup
         { [content |-> JsArray(<<AnthropicBlock("text", JsString("answer"))>>)] }

\* what a rejected provider call rejects with
ProviderErrors == {"network", "rate-limit", "auth"}

Outcomes(provider) ==
  [kind : {"error"}, error : ProviderErrors]
    \cup { [kind |-> "response", response |-> r] : r \in Responses(provider) }

\* one rejection and the response that carries an answer
PlainOutcomes(provider) ==
  { o \in Outcomes(provider) :
      \/ o.kind = "error" /\ o.error = "network"
      \/ o.kind = "response" /\ o.response \notin AbsentResponses(provider) }

\* response.choices[0]?.message?.content || "No answer generated"
openaiAnswer(response) ==
  IF IsNullish(response.choices)
    THEN Thrown(TypeError)
  ELSE LET first == First(response.choices)
           message == IF IsNullish(first) THEN Undefined ELSE first.message
           content == IF IsNullish(message) THEN Undefined ELSE message.content
       IN Returned(IF Falsy(content) THEN NoAnswerGenerated ELSE content.value)

\* response.data?.candidates?.[0]?.content?.parts?.[0]?.text || "No answer generated"
geminiAnswer(response) ==
  LET data == response.data
      candidates == IF IsNullish(data) THEN Undefined ELSE data.candidates
      candidate == IF IsNullish(candidates) THEN Undefined ELSE First(candidates)
      content == IF IsNullish(candidate) THEN Undefined ELSE candidate.content
      parts == IF IsNullish(content) THEN Undefined ELSE content.parts
      part == IF IsNullish(parts) THEN Undefined ELSE First(parts)
      text == IF IsNullish(part) THEN Undefined ELSE part.text
  IN Returned(IF Falsy(text) THEN NoAnswerGenerated ELSE text.value)

\* response.content[0]?.type === "text" ? response.content[0].text : "No answer generated",
\* then answer.substring(0, 100) for the log line
anthropicAnswer(response) ==
  IF IsNullish(response.content)
    THEN Thrown(TypeError)
  ELSE LET first == First(response.content)
           type == IF IsNullish(first) THEN Undefined ELSE first.type
       IN IF type.kind = "string" /\ type.value = "text"
            THEN IF first.text.kind = "string"
                   THEN Returned(first.text.value)
                   ELSE Thrown(TypeError)
            ELSE Returned(NoAnswerGenerated)

Answer(provider, response) ==
  CASE provider = "openai" -> openaiAnswer(response)
    [] provider = "gemini" -> geminiAnswer(response)
    [] OTHER -> anthropicAnswer(response)

\* a catch block that rejects with an error of its own
CatchWraps(e) == Thrown("Error generating reply")

\* catch (error) { console.error(...); throw error }
Catch(e) == Thrown(e)

\* the requests still in flight once req has settled
Settled(req, outcome) == outstanding (-) SetToBag({req})

\* the awaited provider call of one replyToQuestion() settles
ProviderSettles(req, outcome) ==
  LET result == IF outcome.kind = "error"
                  THEN Catch(outcome.error)
                  ELSE LET r == Answer(req.provider, outcome.response)
                       IN IF r.kind = "thrown" THEN Catch(r.error) ELSE r
  IN /\ BagIn(req, outstanding)
     /\ outstanding' = Settled(req, outcome)
     /\ lastMain' = [op |-> "providerSettles", provider |-> req.provider,
                     outcome |-> outcome, result |-> result]
     /\ UNCHANGED <<hookVars, langVars, appVars, windowVars, pipeVars>>
     /\ UNCHANGED <<config, openaiClient, geminiApiKey, anthropicClient, transcript, observed>>

\* replyToQuestion() as far as line 147, the call of extractQuestion():
\* result is what it returned, hits the sentences that pass its test
callExtractQuestion ==
  LET question == extractQuestion(transcript)
  IN /\ extracted' = extracted \cup {[config |-> loadConfig,
                                       result |-> question]}
     /\ lastMain' = [op |-> "extractQuestion", result |-> question,
                     hits |-> QuestionIndexes(transcript)]
     /\ UNCHANGED <<hookVars, langVars, appVars, windowVars, hookTranscript, appendCalls>>
     /\ UNCHANGED <<config, openaiClient, geminiApiKey, anthropicClient,
                    transcript, outstanding, observed>>

NextExtract ==
  \/ \E cfg \in ReplyConfigs : ConfigUpdated(cfg)
  \/ callExtractQuestion

NextMain ==
  \/ \E cfg \in Configs : ConfigUpdated(cfg)
  \/ getTranscript
  \/ \E text \in Segments : appendToTranscript(text)
  \/ clearTranscript
  \/ BagCardinality(outstanding) < MaxOutstanding /\ replyToQuestion
  \/ \E req \in BagToSet(outstanding) :
       \E outcome \in PlainOutcomes(req.provider) : ProviderSettles(req, outcome)

\* transcripts of the reply path: nothing said, and one question
ReplyTranscripts == {<<>>, <<"w", "h", "y", "?">>}

\* the reply path alone: the configuration changes, replies are asked for
\* while earlier ones are in flight, provider calls settle in any order
NextReply ==
  \/ \E cfg \in LanguageConfigs : ConfigUpdated(cfg)
  \/ BagCardinality(outstanding) < MaxOverlap /\ replyToQuestion
  \/ \E req \in BagToSet(outstanding) :
       \E outcome \in Outcomes(req.provider) : ProviderSettles(req, outcome)

\* ---------------------------------------------------- the recognition hook
MaxInst == 2
MaxTimers == 2

Insts == 1..MaxInst

\* SpeechRecognition object: "idle" (not started), "starting" (start()
\* accepted, start event pending), "running", "aborting" (stop()/abort()
\* called, end event pending), "ending" (error event delivered, end event
\* pending).  start() throws InvalidStateError from start() until the end
\* event.
EngineStates == {"none", "idle", "starting", "running", "aborting", "ending"}

RecognitionErrors == {"no-speech", "audio-capture", "not-allowed", "aborted"}

\* recognition.start(): accepted only on an object that is not started
StartAccepted(eng, i) == eng[i] = "idle"

AfterStart(eng, i) ==
  IF StartAccepted(eng, i) THEN [eng EXCEPT ![i] = "starting"] ELSE eng

\* recognition.stop(); recognition.abort()
AfterStopAbort(eng, i) ==
  IF eng[i] \in {"starting", "running"}
    THEN [eng EXCEPT ![i] = "aborting"]
    ELSE eng

Timer(kind, inst, capL) ==
  [kind |-> kind, inst |-> inst, capL |-> capL, stopped |-> FALSE]

Room(n) == BagCardinality(timers) + n <= MaxTimers

Schedule(bag, t) == bag (+) SetToBag({t})

\* every pending restart timer of an end event has seen a stopListening() call
MarkStopped(bag) ==
  LET Mark(t) == IF t.kind = "onend" THEN [t EXCEPT !.stopped = TRUE] ELSE t
      T == { Mark(t) : t \in BagToSet(bag) }
      Count(t) == IF BagIn(t, bag) THEN CopiesIn(t, bag) ELSE 0
  IN [t \in T |->
        IF t.kind = "onend"
          THEN Count(t) + Count([t EXCEPT !.stopped = FALSE])
          ELSE Count(t)]

LH(op, inst, arg, starts, accepted, tStopped) ==
  [op |-> op, inst |-> inst, arg |-> arg, starts |-> starts,
   accepted |-> accepted, tStopped |-> tStopped]

NoWatch == [inst |-> 0, error |-> "", enabled |-> FALSE, sched |-> FALSE,
            done |-> FALSE]

NoClosure == [autoStart |-> FALSE, isListening |-> FALSE]

\* first render and mount
InitHook ==
  /\ supported \in BOOLEAN
  /\ autoStart \in BOOLEAN
  /\ isListening = FALSE
  /\ shouldRestartRef = FALSE
  /\ timers = EmptyBag
  /\ denied = FALSE
  /\ stopWatch = {}
  /\ errWatch = NoWatch
  /\ lastHook = LH("mount", 0, "", 0, FALSE, FALSE)
  /\ hookTranscript = <<>>
  /\ appendCalls = <<>>
  /\ closure = IF supported
                 THEN [i \in Insts |->
                         IF i = 1 THEN [autoStart |-> autoStart,
                                        isListening |-> FALSE]
                                  ELSE NoClosure]
                 ELSE [i \in Insts |-> NoClosure]
  /\ created = IF supported THEN 1 ELSE 0
  /\ recognitionRef = IF supported THEN 1 ELSE 0
  /\ engine = [i \in Insts |->
                 IF supported /\ i = 1
                   THEN (IF autoStart THEN "starting" ELSE "idle")
                   ELSE "none"]
  /\ error = IF supported THEN <<>>
             ELSE <<"Speech recognition not supported in this browser">>

NotSupported == <<"Speech recognition not supported in this browser">>

\* the languages the session dialog offers
Languages == {"pl-PL", "en-US"}

\* languageRef = useRef(transcriptionLanguage); recognition.lang =
\* languageRef.current in the first run of the effect
InitLang(l) ==
  /\ transcriptionLanguage = l
  /\ languageRef = l
  /\ lang = [i \in Insts |-> IF supported /\ i = 1 THEN l ELSE ""]

\* SubscribedApp's first render and its effects
InitApp ==
  /\ sessionActive = FALSE
  /\ showSessionDialog = FALSE
  /\ hasShownStartToast = FALSE
  /\ toasts = IF supported THEN <<>> ELSE <<"Transcription Not Available">>

Settle(w) == IF w.done THEN NoWatch ELSE w

\* a render with a changed autoStart: the effect's cleanup (lines 527-537)
\* runs, then the effect body (lines 417-524) with the new value
Rerender(newAuto) ==
  /\ newAuto # autoStart
  /\ supported => created < MaxInst
  /\ autoStart' = newAuto
  /\ LET cleaned == IF recognitionRef # 0
                      THEN AfterStopAbort(engine, recognitionRef)
                      ELSE engine
     IN IF ~supported
          THEN /\ error' = NotSupported
               /\ recognitionRef' = 0
               /\ UNCHANGED <<created, engine, closure, lang>>
          ELSE /\ created' = created + 1
               /\ recognitionRef' = created + 1
               /\ engine' = [cleaned EXCEPT ![created + 1] =
                               IF newAuto THEN "starting" ELSE "idle"]
               /\ closure' = [closure EXCEPT ![created + 1] =
                                [autoStart |-> newAuto,
                                 isListening |-> isListening]]
               /\ lang' = [lang EXCEPT ![created + 1] = languageRef]
               /\ UNCHANGED error
  /\ errWatch' = Settle(errWatch)
  /\ lastHook' = LH("rerender", recognitionRef', "",
                    IF supported /\ newAuto THEN 1 ELSE 0,
                    supported /\ newAuto, FALSE)
  /\ UNCHANGED <<mainVars, windowVars, pipeVars, transcriptionLanguage, languageRef>>
  /\ UNCHANGED <<supported, isListening, shouldRestartRef, timers, denied,
                 stopWatch>>

\* a language effect that leaves the live object for the next start
LangAfterChangeDeferred(ref, l) == lang

\* if (recognitionRef.current) recognitionRef.current.lang = ... (lines 410-413)
LangAfterChange(ref, l) == IF ref # 0 THEN [lang EXCEPT ![ref] = l] ELSE lang

\* a render with a changed transcriptionLanguage: the language effect
\* (lines 406-414) runs; the init effect, whose only dependency is
\* autoStart, does not
LanguageChanged(l) ==
  /\ l # transcriptionLanguage
  /\ transcriptionLanguage' = l
  /\ languageRef' = l
  /\ lang' = LangAfterChange(recognitionRef, l)
  /\ errWatch' = Settle(errWatch)
  /\ lastHook' = LH("languageChanged", recognitionRef, l, 0, FALSE, FALSE)
  /\ UNCHANGED <<mainVars, windowVars, pipeVars>>
  /\ UNCHANGED <<supported, autoStart, recognitionRef, created, engine,
                 closure, isListening, shouldRestartRef, error, timers,
                 denied, stopWatch>>

\* a stopListening() that leaves the flag as it is
FlagAfterStopKept(flag) == flag

\* value stopListening() stores in shouldRestartRef.current (line 597)
FlagAfterStop(flag) == FALSE

\* a startListening() that does not look at isListening
AlreadyListeningIgnored(capL) == FALSE

\* if (isListening) return (lines 557-560)
AlreadyListening(capL) == capL

\* a retry that clears the error instead of setting it
NotInitializedCleared == <<>>

\* setError('Speech recognition not initialized. ...') (line 551)
NotInitialized == <<"Speech recognition not initialized">>

\* body of startListening() (lines 540-591) for a closure that captured
\* isListening = capL; base is the bag of timers left pending
startListeningFrom(capL, base, op, tStopped) ==
  IF recognitionRef = 0 THEN
    /\ timers' = Schedule(base, Timer("startRetry", 0, capL))
    /\ lastHook' = LH(op, 0, "notReady", 0, FALSE, tStopped)
    /\ UNCHANGED <<shouldRestartRef, engine, error, lang>>
  ELSE IF AlreadyListening(capL) THEN
    /\ timers' = base
    /\ lastHook' = LH(op, recognitionRef, "skip", 0, FALSE, tStopped)
    /\ UNCHANGED <<shouldRestartRef, engine, error, lang>>
  ELSE IF StartAccepted(engine, recognitionRef) THEN
    /\ shouldRestartRef' = TRUE
    /\ lang' = [lang EXCEPT ![recognitionRef] = languageRef]
    /\ engine' = AfterStart(engine, recognitionRef)
    /\ timers' = base
    /\ lastHook' = LH(op, recognitionRef, "start", 1, TRUE, tStopped)
    /\ UNCHANGED error
  ELSE
    \* start() throws "recognition has already started": lines 569-590
    /\ shouldRestartRef' = TRUE
    /\ lang' = [lang EXCEPT ![recognitionRef] = languageRef]
    /\ error' = <<"Failed to start listening">>
    /\ engine' = AfterStopAbort(engine, recognitionRef)
    /\ timers' = Schedule(base, Timer("alreadyRetry", 0, capL))
    /\ lastHook' = LH(op, recognitionRef, "throw", 1, FALSE, tStopped)

\* the user starts listening through the callback of the current render
startListening ==
  /\ Room(1)
  /\ startListeningFrom(isListening, timers, "startListening", FALSE)
  /\ denied' = FALSE
  /\ stopWatch' = {}
  /\ errWatch' = NoWatch
  /\ UNCHANGED <<mainVars, windowVars, pipeVars, transcriptionLanguage, languageRef>>
  /\ UNCHANGED <<supported, autoStart, recognitionRef, created, closure,
                 isListening>>

\* stopListening() (lines 594-604) through the callback of the current render
stopListening ==
  /\ IF recognitionRef # 0 /\ isListening
       THEN /\ shouldRestartRef' = FlagAfterStop(shouldRestartRef)
            /\ engine' = AfterStopAbort(engine, recognitionRef)
            /\ stopWatch' =
                 IF engine[recognitionRef] \in {"starting", "running"}
                   THEN stopWatch \cup {recognitionRef}
                   ELSE stopWatch
            /\ lastHook' = LH("stopListening", recognitionRef, "stop", 0,
                              FALSE, FALSE)
       ELSE /\ UNCHANGED <<shouldRestartRef, engine, stopWatch>>
            /\ lastHook' = LH("stopListening", recognitionRef, "skip", 0,
                              FALSE, FALSE)
  /\ timers' = MarkStopped(timers)
  /\ errWatch' = NoWatch
  /\ UNCHANGED <<mainVars, windowVars, pipeVars, langVars>>
  /\ UNCHANGED <<supported, autoStart, recognitionRef, created, closure,
                 isListening, error, denied>>

\* recognition.onstart (lines 435-439)
onstart(i) ==
  /\ engine[i] = "starting"
  /\ engine' = [engine EXCEPT ![i] = "running"]
  /\ isListening' = TRUE
  /\ error' = <<>>
  /\ errWatch' = Settle(errWatch)
  /\ lastHook' = LH("onstart", i, "", 0, FALSE, FALSE)
  /\ UNCHANGED <<mainVars, windowVars, pipeVars, langVars>>
  /\ UNCHANGED <<supported, autoStart, recognitionRef, created, closure,
                 shouldRestartRef, timers, denied, stopWatch>>

\* whether recognition.onerror schedules its 1000 ms restart (lines 475-492)
OnErrorSchedules(auto, e) ==
  IF e = "no-speech" THEN FALSE
  ELSE auto /\ e \in {"no-speech", "audio-capture"}

\* recognition.onerror (lines 470-493)
onerror(i, e) ==
  /\ IF e = "aborted" THEN engine[i] = "aborting"
                      ELSE engine[i] \in {"starting", "running"}
  /\ engine' = [engine EXCEPT ![i] = "ending"]
  /\ error' = <<"Speech recognition error: ", e>>
  /\ LET sched == OnErrorSchedules(closure[i].autoStart, e)
     IN /\ sched => Room(1)
        /\ timers' = IF sched
                       THEN Schedule(timers,
                              Timer("onerror", i, closure[i].isListening))
                       ELSE timers
        /\ errWatch' =
             IF e \in {"no-speech", "audio-capture"}
               THEN [inst |-> i, error |-> e,
                     enabled |-> closure[i].autoStart /\ shouldRestartRef,
                     sched |-> sched, done |-> FALSE]
               ELSE Settle(errWatch)
  /\ denied' = (denied \/ e = "not-allowed")
  /\ lastHook' = LH("onerror", i, e, 0, FALSE, FALSE)
  /\ UNCHANGED <<mainVars, windowVars, pipeVars, langVars>>
  /\ UNCHANGED <<supported, autoStart, recognitionRef, created, closure,
                 isListening, shouldRestartRef, stopWatch>>

\* an onend that looks at the flag alone, whatever autoStart is
OnEndSchedulesWithoutAutoStart(auto, flag) == flag

\* an onend that tests the flag the wrong way round
OnEndSchedulesInverted(auto, flag) == auto /\ ~flag

\* whether recognition.onend schedules its 100 ms restart (line 500)
OnEndSchedules(auto, flag) == auto /\ flag

\* recognition.onend (lines 495-512)
onend(i) ==
  /\ engine[i] \in {"running", "aborting", "ending"}
  /\ engine' = [engine EXCEPT ![i] = "idle"]
  /\ isListening' = FALSE
  /\ LET sched == OnEndSchedules(closure[i].autoStart, shouldRestartRef)
     IN /\ sched => Room(1)
        /\ timers' = IF sched
                       THEN Schedule(timers, Timer("onend", i, FALSE))
                       ELSE timers
        /\ errWatch' =
             IF errWatch.inst = i /\ ~errWatch.done
               THEN [errWatch EXCEPT !.sched = @ \/ sched, !.done = TRUE]
               ELSE Settle(errWatch)
  /\ stopWatch' = stopWatch \ {i}
  /\ lastHook' = LH("onend", i, "", 0, FALSE, i \in stopWatch)
  /\ UNCHANGED <<mainVars, windowVars, pipeVars, langVars>>
  /\ UNCHANGED <<supported, autoStart, recognitionRef, created, closure,
                 shouldRestartRef, error, denied>>

\* guard of the 100 ms restart callback (line 502)
RestartGuard(ref) == ref # 0

\* guard of the 1000 ms restart callback (line 484)
ErrorRestartGuard(ref, capL) == ref # 0 /\ capL

\* a pending setTimeout callback runs
TimerFires(t) ==
  /\ BagIn(t, timers)
  /\ LET base == timers (-) SetToBag({t})
     IN
     CASE t.kind = "onend" ->
            /\ IF RestartGuard(recognitionRef)
                 THEN /\ engine' = AfterStart(engine, t.inst)
                      /\ lastHook' = LH("timer", t.inst, t.kind, 1,
                                        StartAccepted(engine, t.inst),
                                        t.stopped)
                 ELSE /\ UNCHANGED engine
                      /\ lastHook' = LH("timer", t.inst, t.kind, 0, FALSE,
                                        t.stopped)
            /\ timers' = base
            /\ UNCHANGED <<shouldRestartRef, error, denied, stopWatch, lang>>
            /\ errWatch' = Settle(errWatch)
       [] t.kind = "onerror" ->
            /\ IF ErrorRestartGuard(recognitionRef, t.capL)
                 THEN /\ engine' = AfterStart(engine, t.inst)
                      /\ lastHook' = LH("timer", t.inst, t.kind, 1,
                                        StartAccepted(engine, t.inst),
                                        t.stopped)
                 ELSE /\ UNCHANGED engine
                      /\ lastHook' = LH("timer", t.inst, t.kind, 0, FALSE,
                                        t.stopped)
            /\ timers' = base
            /\ UNCHANGED <<shouldRestartRef, error, denied, stopWatch, lang>>
            /\ errWatch' = Settle(errWatch)
       [] t.kind = "startRetry" ->
            \* lines 546-553
            /\ IF recognitionRef # 0
                 THEN startListeningFrom(t.capL, base, "timer-startListening",
                                         t.stopped)
                 ELSE /\ error' = NotInitialized
                      /\ timers' = base
                      /\ lastHook' = LH("timer", 0, t.kind, 0, FALSE,
                                        t.stopped)
                      /\ UNCHANGED <<shouldRestartRef, engine, lang>>
            /\ denied' = FALSE
            /\ stopWatch' = {}
            /\ errWatch' = NoWatch
       [] t.kind = "alreadyRetry" ->
            \* lines 581-585
            /\ IF recognitionRef # 0 /\ ~t.capL
                 THEN /\ engine' = AfterStart(engine, recognitionRef)
                      /\ lastHook' = LH("timer", recognitionRef, t.kind, 1,
                                        StartAccepted(engine, recognitionRef),
                                        t.stopped)
                 ELSE /\ UNCHANGED engine
                      /\ lastHook' = LH("timer", 0, t.kind, 0, FALSE,
                                        t.stopped)
            /\ timers' = base
            /\ UNCHANGED <<shouldRestartRef, error, denied, stopWatch, lang>>
            /\ errWatch' = Settle(errWatch)
  /\ UNCHANGED <<mainVars, windowVars, pipeVars, transcriptionLanguage, languageRef>>
  /\ UNCHANGED <<supported, autoStart, recognitionRef, created, closure,
                 isListening>>

\* the hook on its own: what its host renders is left as it is
NextHook ==
  \/ \E a \in BOOLEAN : Rerender(a) /\ UNCHANGED appVars
  \/ startListening /\ UNCHANGED appVars
  \/ stopListening /\ UNCHANGED appVars
  \/ \E i \in 1..created : onstart(i) /\ UNCHANGED appVars
  \/ \E i \in 1..created : \E e \in RecognitionErrors :
       onerror(i, e) /\ UNCHANGED appVars
  \/ \E i \in 1..created : onend(i) /\ UNCHANGED appVars
  \/ \E t \in BagToSet(timers) : TimerFires(t) /\ UNCHANGED appVars

\* ------------------------------------------------------ recognition results
MaxResults == 2
MaxAppendCalls == 2

\* event.results[i][0].transcript: what the engine recognised
Phrases == { <<"a">>, <<"b">> }

SpeechRecognitionResults == [transcript : Phrases, isFinal : BOOLEAN]

\* SpeechRecognitionEvent: the result list and the index (from 1) of the
\* first result that changed
SpeechRecognitionEvents ==
  UNION { { [resultIndex |-> k, results |-> rs] :
              k \in 1..n, rs \in [1..n -> SpeechRecognitionResults] } :
          n \in 1..MaxResults }

\* the loop of onresult with interim results taken for final ones
RECURSIVE finalTranscriptOfAll(_, _)
finalTranscriptOfAll(results, i) ==
  IF i > Len(results) THEN <<>>
  ELSE results[i].transcript \o <<" ">> \o finalTranscriptOfAll(results, i + 1)

\* the loop of onresult: finalTranscript += transcript + ' ' for each final
\* result from index i on
RECURSIVE finalTranscript(_, _)
finalTranscript(results, i) ==
  IF i > Len(results) THEN <<>>
  ELSE (IF results[i].isFinal
          THEN results[i].transcript \o <<" ">>
          ELSE <<>>)
       \o finalTranscript(results, i + 1)

\* the same loop: interimTranscript += transcript for each other result
RECURSIVE interimTranscript(_, _)
interimTranscript(results, i) ==
  IF i > Len(results) THEN <<>>
  ELSE (IF results[i].isFinal THEN <<>> ELSE results[i].transcript)
       \o interimTranscript(results, i + 1)

AppendTranscriptCall(text) == [channel |-> "append-transcript", text |-> text]

\* recognition.onresult of instance i; the updater passed to setTranscript
\* runs with the latest state and makes the appendTranscript call
onresult(i, event) ==
  LET final == finalTranscript(event.results, event.resultIndex)
      interim == interimTranscript(event.results, event.resultIndex)
  IN /\ engine[i] \in {"running", "aborting"}
     /\ IF final # <<>>
          THEN /\ Len(hookTranscript) + Len(final) <= MaxTranscriptLen
               /\ Len(appendCalls) < MaxAppendCalls
               /\ hookTranscript' = hookTranscript \o final
               /\ appendCalls' =
                    Append(appendCalls, AppendTranscriptCall(Trim(final)))
          ELSE UNCHANGED <<hookTranscript, appendCalls>>
     /\ lastHook' = [op |-> "onresult", inst |-> i, final |-> final,
                     interim |-> interim]
     /\ UNCHANGED <<mainVars, windowVars, langVars, extracted>>
     /\ UNCHANGED <<supported, autoStart, recognitionRef, created, engine,
                    closure, isListening, shouldRestartRef, error, timers,
                    denied, stopWatch, errWatch>>

\* the main process handles the oldest appendTranscript call in flight with
\* TranscriptionHelper.appendToTranscript(text)
appendTranscriptHandler ==
  /\ appendCalls # <<>>
  /\ Head(appendCalls).channel = "append-transcript"
  /\ Len(transcript) + 1 + Len(Head(appendCalls).text) <= MaxTranscriptLen
  /\ transcript' = Appended(transcript, Head(appendCalls).text)
  /\ appendCalls' = Tail(appendCalls)
  /\ lastMain' = [op |-> "appendToTranscript", text |-> Head(appendCalls).text]
  /\ UNCHANGED <<hookVars, langVars, appVars, windowVars, hookTranscript, extracted>>
  /\ UNCHANGED <<config, openaiClient, geminiApiKey, anthropicClient,
                 outstanding, observed>>

NextResult ==
  \/ \E i \in 1..created : \E event \in SpeechRecognitionEvents :
       onresult(i, event) /\ UNCHANGED appVars
  \/ appendTranscriptHandler

\* result events that carry one result
SingleResultEvents == { ev \in SpeechRecognitionEvents : Len(ev.results) = 1 }

\* the hook with a host that changes the language between renders and an
\* engine that delivers results
NextLang ==
  \/ \E l \in Languages : LanguageChanged(l) /\ UNCHANGED appVars
  \/ startListening /\ UNCHANGED appVars
  \/ stopListening /\ UNCHANGED appVars
  \/ \E i \in 1..created : onstart(i) /\ UNCHANGED appVars
  \/ \E i \in 1..created : \E e \in RecognitionErrors :
       onerror(i, e) /\ UNCHANGED appVars
  \/ \E i \in 1..created : onend(i) /\ UNCHANGED appVars
  \/ \E t \in BagToSet(timers) : TimerFires(t) /\ UNCHANGED appVars
  \/ \E i \in 1..created : \E event \in SingleResultEvents :
       onresult(i, event) /\ UNCHANGED appVars

\* ----------------------------------------------------------- SubscribedApp
\* the text of each piece an error message of the hook is made of; the
\* message of the exception start() throws is the engine's
Chars(s) ==
  CASE s = "Speech recognition error: " ->
    <<"S","p","e","e","c","h"," ","r","e","c","o","g","n","i","t","i","o",
      "n"," ","e","r","r","o","r",":"," ">>
    [] s = "no-speech" ->
    <<"n","o","-","s","p","e","e","c","h">>
    [] s = "audio-capture" ->
    <<"a","u","d","i","o","-","c","a","p","t","u","r","e">>
    [] s = "not-allowed" ->
    <<"n","o","t","-","a","l","l","o","w","e","d">>
    [] s = "aborted" ->
    <<"a","b","o","r","t","e","d">>
    [] s = "Speech recognition not supported in this browser" ->
    <<"S","p","e","e","c","h"," ","r","e","c","o","g","n","i","t","i","o",
      "n"," ","n","o","t"," ","s","u","p","p","o","r","t","e","d"," ","i",
      "n"," ","t","h","i","s"," ","b","r","o","w","s","e","r">>
    [] s = "Speech recognition not initialized" ->
    <<"S","p","e","e","c","h"," ","r","e","c","o","g","n","i","t","i","o",
      "n"," ","n","o","t"," ","i","n","i","t","i","a","l","i","z","e","d",
      "."," ","P","l","e","a","s","e"," ","w","a","i","t"," ","a"," ","m",
      "o","m","e","n","t"," ","a","n","d"," ","t","r","y"," ","a","g","a",
      "i","n",".">>
    [] s = "Failed to start listening" ->
    <<"F","a","i","l","e","d"," ","t","o"," ","s","t","a","r","t"," ","l",
      "i","s","t","e","n","i","n","g",":"," ","F","a","i","l","e","d"," ",
      "t","o"," ","e","x","e","c","u","t","e"," ","'","s","t","a","r","t",
      "'"," ","o","n"," ","'","S","p","e","e","c","h","R","e","c","o","g",
      "n","i","t","i","o","n","'",":"," ","r","e","c","o","g","n","i","t",
      "i","o","n"," ","h","a","s"," ","a","l","r","e","a","d","y"," ","s",
      "t","a","r","t","e","d",".">>

\* the hook's error state as the string the application receives
ErrorText(err) ==
  IF err = <<>> THEN <<>>
  ELSE IF Len(err) = 1 THEN Chars(err[1])
  ELSE Chars(err[1]) \o Chars(err[2])

\* String.prototype.includes
IncludesText(s, sub) ==
  \E k \in 0..(Len(s) - Len(sub)) : SubSeq(s, k + 1, k + Len(sub)) = sub

\* the toasts of the error effect (lines 115-132) for a new error value
ErrorToasts(err) ==
  IF err = <<>> THEN <<>>
  ELSE IF IncludesText(ErrorText(err), <<"n","o","t"," ","s","u","p","p","o","r","t","e","d">>)
    THEN <<"Transcription Not Available">>
  ELSE IF \/ IncludesText(ErrorText(err), <<"p","e","r","m","i","s","s","i","o","n">>)
          \/ IncludesText(ErrorText(err), <<"m","i","c","r","o","p","h","o","n","e">>)
    THEN <<"Microphone Permission Required">>
  ELSE <<>>

\* the effects of SubscribedApp that run after a render: the start toast
\* (lines 82-95) when isListening, the language or sessionActive changed, the
\* error toast (lines 115-132) when the hook's error changed; shown is what
\* the handler itself showed
AppEffects(shown) ==
  LET startRuns == <<isListening', transcriptionLanguage', sessionActive'>>
                     # <<isListening, transcriptionLanguage, sessionActive>>
      startShows == startRuns /\ isListening' /\ sessionActive'
                      /\ ~hasShownStartToast
      errorRuns == error' # error
  IN /\ hasShownStartToast' =
          IF ~startRuns THEN hasShownStartToast
          ELSE IF ~isListening' THEN FALSE
          ELSE (hasShownStartToast \/ startShows)
     /\ toasts' = shown
                    \o (IF startShows THEN <<"Sesja rozpoczeta">> ELSE <<>>)
                    \o (IF errorRuns THEN ErrorToasts(error') ELSE <<>>)

\* a hook handler or timer running inside the application
InApp(A) ==
  /\ A
  /\ UNCHANGED <<sessionActive, showSessionDialog>>
  /\ AppEffects(<<>>)

\* setShowSessionDialog(true): the 500 ms timer of the first mount (lines
\* 32-41), the queue's button (line 264) or the panel's Start button without
\* a session (lines 284-285)
openSessionDialog ==
  /\ ~showSessionDialog
  /\ showSessionDialog' = TRUE
  /\ lastHook' = LH("openSessionDialog", recognitionRef, "", 0, FALSE, FALSE)
  /\ UNCHANGED <<mainVars, windowVars, pipeVars, langVars>>
  /\ UNCHANGED <<supported, autoStart, recognitionRef, created, engine,
                 closure, isListening, shouldRestartRef, error, timers,
                 denied, stopWatch, errWatch>>
  /\ UNCHANGED sessionActive
  /\ AppEffects(<<>>)

\* the dialog's onClose without a start
closeSessionDialog ==
  /\ showSessionDialog
  /\ showSessionDialog' = FALSE
  /\ lastHook' = LH("closeSessionDialog", recognitionRef, "", 0, FALSE, FALSE)
  /\ UNCHANGED <<mainVars, windowVars, pipeVars, langVars>>
  /\ UNCHANGED <<supported, autoStart, recognitionRef, created, engine,
                 closure, isListening, shouldRestartRef, error, timers,
                 denied, stopWatch, errWatch>>
  /\ UNCHANGED sessionActive
  /\ AppEffects(<<>>)

ClearTranscriptCall == [channel |-> "clear-transcript"]

\* a session start that leaves the renderer transcript as it is
handleStartSessionKeepsTranscript(language) ==
  /\ showSessionDialog
  /\ Room(1)
  /\ Len(appendCalls) + 2 <= MaxAppendCalls
  /\ transcriptionLanguage' = language
  /\ languageRef' = language
  /\ lang' = IF language # transcriptionLanguage
               THEN LangAfterChange(recognitionRef, language)
               ELSE lang
  /\ sessionActive' = TRUE
  /\ showSessionDialog' = FALSE
  /\ UNCHANGED hookTranscript
  /\ appendCalls' = appendCalls \o <<ClearTranscriptCall, ClearTranscriptCall>>
  /\ timers' = Schedule(timers, Timer("session", 0, isListening))
  /\ errWatch' = Settle(errWatch)
  /\ lastHook' = LH("handleStartSession", recognitionRef, language, 0, FALSE,
                    FALSE)
  /\ UNCHANGED <<mainVars, windowVars, extracted>>
  /\ UNCHANGED <<supported, autoStart, recognitionRef, created, engine,
                 closure, isListening, shouldRestartRef, error, denied,
                 stopWatch>>
  /\ AppEffects(<<>>)

\* the dialog's Start button: handleStartSession(language) (lines 59-72),
\* then onClose; the 800 ms timer holds the startListening of this render
handleStartSession(language) ==
  /\ showSessionDialog
  /\ Room(1)
  /\ Len(appendCalls) + 2 <= MaxAppendCalls
  /\ transcriptionLanguage' = language
  /\ languageRef' = language
  /\ lang' = IF language # transcriptionLanguage
               THEN LangAfterChange(recognitionRef, language)
               ELSE lang
  /\ sessionActive' = TRUE
  /\ showSessionDialog' = FALSE
  /\ hookTranscript' = <<>>
  /\ appendCalls' = appendCalls \o <<ClearTranscriptCall, ClearTranscriptCall>>
  /\ timers' = Schedule(timers, Timer("session", 0, isListening))
  /\ errWatch' = Settle(errWatch)
  /\ lastHook' = LH("handleStartSession", recognitionRef, language, 0, FALSE,
                    FALSE)
  /\ UNCHANGED <<mainVars, windowVars, extracted>>
  /\ UNCHANGED <<supported, autoStart, recognitionRef, created, engine,
                 closure, isListening, shouldRestartRef, error, denied,
                 stopWatch>>
  /\ AppEffects(<<>>)

\* the 800 ms timer of handleStartSession runs its startListening()
SessionTimerFires(t) ==
  /\ BagIn(t, timers)
  /\ t.kind = "session"
  /\ startListeningFrom(t.capL, timers (-) SetToBag({t}), "timer-session",
                        FALSE)
  /\ denied' = FALSE
  /\ stopWatch' = {}
  /\ errWatch' = NoWatch
  /\ UNCHANGED <<mainVars, windowVars, pipeVars, transcriptionLanguage, languageRef>>
  /\ UNCHANGED <<supported, autoStart, recognitionRef, created, closure,
                 isListening>>
  /\ UNCHANGED <<sessionActive, showSessionDialog>>
  /\ AppEffects(<<>>)

\* the panel's Start button (lines 281-290), shown while not listening; with
\* a session it calls the startListening of the current render
panelOnStart ==
  /\ ~isListening
  /\ IF ~sessionActive
       THEN /\ showSessionDialog' = TRUE
            /\ lastHook' = LH("panelOnStart", recognitionRef, "dialog", 0,
                              FALSE, FALSE)
            /\ UNCHANGED <<mainVars, windowVars, pipeVars, langVars>>
            /\ UNCHANGED <<supported, autoStart, recognitionRef, created,
                           engine, closure, isListening, shouldRestartRef,
                           error, timers, denied, stopWatch, errWatch>>
       ELSE /\ startListening
            /\ UNCHANGED showSessionDialog
  /\ UNCHANGED sessionActive
  /\ AppEffects(<<>>)

\* the panel's Stop button: handleStopSession() (lines 75-79), shown while
\* listening
handleStopSession ==
  /\ isListening
  /\ stopListening
  /\ sessionActive' = FALSE
  /\ UNCHANGED showSessionDialog
  /\ AppEffects(<<"Sesja zakonczona">>)

\* the main process handles the oldest clearTranscript call in flight
clearTranscriptHandler ==
  /\ appendCalls # <<>>
  /\ Head(appendCalls).channel = "clear-transcript"
  /\ transcript' = <<>>
  /\ observed' = <<>>
  /\ appendCalls' = Tail(appendCalls)
  /\ lastMain' = [op |-> "clearTranscript", heldText |-> transcript # <<>>]
  /\ UNCHANGED <<hookVars, langVars, appVars, windowVars, hookTranscript, extracted>>
  /\ UNCHANGED <<config, openaiClient, geminiApiKey, anthropicClient,
                 outstanding>>

\* SubscribedApp with the hook it mounts: useTranscription(language, false)
NextApp ==
  \/ openSessionDialog
  \/ closeSessionDialog
  \/ \E l \in Languages : handleStartSession(l)
  \/ \E t \in BagToSet(timers) : SessionTimerFires(t)
  \/ panelOnStart
  \/ handleStopSession
  \/ clearTranscriptHandler
  \/ \E i \in 1..created : InApp(onstart(i))
  \/ \E i \in 1..created : \E e \in RecognitionErrors : InApp(onerror(i, e))
  \/ \E i \in 1..created : InApp(onend(i))
  \/ \E t \in BagToSet(timers) : t.kind # "session" /\ InApp(TimerFires(t))

\* the panel's Clear button (lines 291-294): the hook's clearTranscript()
\* (lines 606-613), which empties the renderer transcript and makes the
\* bridge call, then a second bridge call
panelOnClear ==
  /\ Len(appendCalls) + 2 <= MaxAppendCalls
  /\ hookTranscript' = <<>>
  /\ appendCalls' = appendCalls \o <<ClearTranscriptCall, ClearTranscriptCall>>
  /\ lastHook' = LH("panelOnClear", recognitionRef, "", 0, FALSE, FALSE)
  /\ UNCHANGED <<mainVars, windowVars, langVars, extracted>>
  /\ UNCHANGED <<supported, autoStart, recognitionRef, created, engine,
                 closure, isListening, shouldRestartRef, error, timers,
                 denied, stopWatch, errWatch>>
  /\ UNCHANGED <<sessionActive, showSessionDialog>>
  /\ AppEffects(<<>>)

\* what the engine hands over in a session, one result per event: a bare
\* word, and a word with the blank an engine puts in front of the transcript
\* of a later result
SessionEvents ==
  { [resultIndex |-> 1, results |-> <<[transcript |-> p, isFinal |-> f]>>] :
      p \in {<<"a">>, <<" ", "b">>}, f \in BOOLEAN }

\* a session from the dialog to the main process: the application with an
\* engine that delivers results and a main process that handles the bridge
\* calls in the order they were made
NextSession ==
  \/ openSessionDialog
  \/ \E l \in Languages : handleStartSession(l)
  \/ \E t \in BagToSet(timers) : SessionTimerFires(t)
  \/ panelOnStart
  \/ handleStopSession
  \/ panelOnClear
  \/ \E i \in 1..created : InApp(onstart(i))
  \/ \E i \in 1..created : InApp(onend(i))
  \/ \E t \in BagToSet(timers) : t.kind # "session" /\ InApp(TimerFires(t))
  \/ \E i \in 1..created : \E event \in SessionEvents :
       InApp(onresult(i, event))
  \/ appendTranscriptHandler
  \/ clearTranscriptHandler

\* a session that is asked for an answer: the dialog starts it, the engine
\* delivers results, the main process handles the bridge calls and
\* replyToQuestion() is invoked by its shortcut
NextPrompt ==
  \/ openSessionDialog
  \/ \E l \in Languages : handleStartSession(l)
  \/ \E t \in BagToSet(timers) : SessionTimerFires(t)
  \/ \E i \in 1..created : InApp(onstart(i))
  \/ \E i \in 1..created : \E event \in SessionEvents :
       InApp(onresult(i, event))
  \/ appendTranscriptHandler
  \/ clearTranscriptHandler
  \/ BagCardinality(outstanding) < MaxOutstanding /\ replyToQuestion
  \/ \E req \in BagToSet(outstanding) :
       \E outcome \in PlainOutcomes(req.provider) : ProviderSettles(req, outcome)

\* ------------------------------------------------------------ main window
MinOpacity == 10
MaxOpacity == 100

\* Math.max(0.1, Math.min(1.0, currentOpacity + delta))
ClampOpacity(o) ==
  IF o < MinOpacity THEN MinOpacity ELSE IF o > MaxOpacity THEN MaxOpacity ELSE o

\* savedOpacity > 0.1 ? savedOpacity : fallback
FinalOpacity(saved, fallback) == IF saved > MinOpacity THEN saved ELSE fallback

\* minWidth and minHeight of the window settings, also the least size
\* resizeWindow() allows
MinWidth == 400
MinHeight == 300

\* primaryDisplay.workAreaSize of the display the model runs on
WorkArea == [width |-> 4 * MinWidth, height |-> 4 * MinHeight]

\* Math.floor(workArea.width / 4) by Math.floor(workArea.height / 4)
QuarterScreen ==
  [width |-> WorkArea.width \div 4, height |-> WorkArea.height \div 4]

\* state.windowSize = null
NoSize == [width |-> 0, height |-> 0]

Min(a, b) == IF a < b THEN a ELSE b

\* createWindow() has run: the window is shown and focused
InitWindow ==
  /\ mainWindow = "open"
  /\ isWindowVisible = TRUE
  /\ winVisible = TRUE
  /\ winFocused = TRUE
  /\ opacity = MaxOpacity
  /\ lastWindow = "createWindow"
  /\ isManuallyResized = FALSE
  /\ winBounds = QuarterScreen
  /\ windowSize = QuarterScreen
  /\ resizePending = FALSE
  /\ userResized = FALSE

WindowOnly == UNCHANGED <<mainVars, hookVars, pipeVars, langVars, appVars>>

\* createWindow() (lines 474-657) once the window has been closed
createWindow ==
  /\ mainWindow = "null"
  /\ mainWindow' = "open"
  /\ opacity' = FinalOpacity(opacity, 100)
  /\ winVisible' = TRUE
  /\ winFocused' = TRUE
  /\ isWindowVisible' = TRUE
  /\ lastWindow' = "createWindow"
  /\ winBounds' = QuarterScreen
  /\ windowSize' = QuarterScreen
  /\ resizePending' = FALSE
  /\ UNCHANGED <<isManuallyResized, userResized>>
  /\ WindowOnly

\* handleWindowClosed() (lines 676-681)
handleWindowClosed ==
  /\ mainWindow = "open"
  /\ mainWindow' = "null"
  /\ isWindowVisible' = FALSE
  /\ winVisible' = FALSE
  /\ winFocused' = FALSE
  /\ lastWindow' = "handleWindowClosed"
  /\ windowSize' = NoSize
  /\ resizePending' = FALSE
  /\ UNCHANGED <<opacity, isManuallyResized, winBounds, userResized>>
  /\ WindowOnly

\* mainWindow.show() in the Cmd/Ctrl+B handler and in toggleMainWindow()
ShownAfterShow(shown) == TRUE

\* the Cmd/Ctrl+B handler (lines 109-118)
CmdB ==
  /\ IF mainWindow = "open"
       THEN /\ winVisible' = ShownAfterShow(winVisible)
            /\ winFocused' = winVisible'
       ELSE UNCHANGED <<winVisible, winFocused>>
  /\ lastWindow' = "CmdB"
  /\ UNCHANGED <<mainWindow, isWindowVisible, opacity>>
  /\ UNCHANGED sizeVars
  /\ WindowOnly

\* hideMainWindow() (lines 684-687): logs and returns
hideMainWindow ==
  /\ lastWindow' = "hideMainWindow"
  /\ UNCHANGED <<mainWindow, isWindowVisible, winVisible, winFocused, opacity>>
  /\ UNCHANGED sizeVars
  /\ WindowOnly

\* showMainWindow() (lines 689-739)
showMainWindow ==
  /\ mainWindow = "open"
  /\ opacity' = FinalOpacity(opacity, 95)
  /\ winVisible' = TRUE
  /\ winFocused' = TRUE
  /\ isWindowVisible' = TRUE
  /\ lastWindow' = "showMainWindow"
  /\ UNCHANGED mainWindow
  /\ UNCHANGED sizeVars
  /\ WindowOnly

\* toggleMainWindow() (lines 741-750)
toggleMainWindow ==
  /\ mainWindow = "open"
  /\ winVisible' = ShownAfterShow(winVisible)
  /\ winFocused' = winVisible'
  /\ isWindowVisible' = TRUE
  /\ lastWindow' = "toggleMainWindow"
  /\ UNCHANGED <<mainWindow, opacity>>
  /\ UNCHANGED sizeVars
  /\ WindowOnly

\* adjustOpacity(delta) (lines 12-40), delta in hundredths
adjustOpacity(delta) ==
  /\ mainWindow = "open"
  /\ opacity' = ClampOpacity(opacity + delta)
  /\ IF opacity' > MinOpacity
       THEN winVisible' = TRUE /\ winFocused' = TRUE
       ELSE UNCHANGED <<winVisible, winFocused>>
  /\ lastWindow' = "adjustOpacity"
  /\ UNCHANGED <<mainWindow, isWindowVisible>>
  /\ UNCHANGED sizeVars
  /\ WindowOnly

\* the window system hides the window or gives the focus to another one
windowHidden ==
  /\ mainWindow = "open"
  /\ winVisible
  /\ winVisible' = FALSE
  /\ winFocused' = FALSE
  /\ lastWindow' = "hidden"
  /\ UNCHANGED <<mainWindow, isWindowVisible, opacity>>
  /\ UNCHANGED sizeVars
  /\ WindowOnly

windowBlurred ==
  /\ mainWindow = "open"
  /\ winFocused
  /\ winFocused' = FALSE
  /\ lastWindow' = "blurred"
  /\ UNCHANGED <<mainWindow, isWindowVisible, winVisible, opacity>>
  /\ UNCHANGED sizeVars
  /\ WindowOnly

\* setWindowDimensions(width, height) (lines 793-823); setBounds() makes the
\* window emit 'resize' when its size changes
setWindowDimensions(width, height) ==
  /\ IF mainWindow = "open" /\ ~isManuallyResized
       THEN LET size == [width |-> Min(width + 32, WorkArea.width - 20),
                         height |-> height]
            IN /\ winBounds' = size
               /\ windowSize' = size
               /\ resizePending' = (resizePending \/ size # winBounds)
       ELSE UNCHANGED <<winBounds, windowSize, resizePending>>
  /\ lastWindow' = "setWindowDimensions"
  /\ UNCHANGED <<isManuallyResized, userResized>>
  /\ UNCHANGED <<mainWindow, isWindowVisible, winVisible, winFocused, opacity>>
  /\ WindowOnly

\* resizeWindow(deltaWidth, deltaHeight) (lines 826-847), called by the
\* resize shortcuts (lines 214-242)
resizeWindow(deltaWidth, deltaHeight) ==
  /\ mainWindow = "open"
  /\ LET size ==
           [width |-> Max(MinWidth,
                          Min(WorkArea.width, winBounds.width + deltaWidth)),
            height |-> Max(MinHeight,
                           Min(WorkArea.height, winBounds.height + deltaHeight))]
     IN /\ winBounds' = size
        /\ windowSize' = size
        /\ resizePending' = (resizePending \/ size # winBounds)
  /\ isManuallyResized' = TRUE
  /\ userResized' = TRUE
  /\ lastWindow' = "resizeWindow"
  /\ UNCHANGED <<mainWindow, isWindowVisible, winVisible, winFocused, opacity>>
  /\ WindowOnly

\* handleWindowResize() (lines 667-674), the listener of the window's
\* 'resize' event (line 634): the event of a size change made by setBounds(),
\* or the one of the user dragging an edge to the size dragged
handleWindowResize(dragged) ==
  /\ mainWindow = "open"
  /\ IF resizePending
       THEN /\ dragged = winBounds
            /\ UNCHANGED userResized
       ELSE /\ dragged # winBounds
            /\ userResized' = TRUE
  /\ winBounds' = dragged
  /\ windowSize' = dragged
  /\ isManuallyResized' = TRUE
  /\ resizePending' = FALSE
  /\ lastWindow' = "handleWindowResize"
  /\ UNCHANGED <<mainWindow, isWindowVisible, winVisible, winFocused, opacity>>
  /\ WindowOnly

NextWindow ==
  \/ createWindow
  \/ handleWindowClosed
  \/ CmdB
  \/ hideMainWindow
  \/ showMainWindow
  \/ toggleMainWindow
  \/ \E delta \in {-10, 10} : adjustOpacity(delta)
  \/ windowHidden
  \/ windowBlurred
  \/ \E width \in {418, 768} : \E height \in {350, 600} :
       setWindowDimensions(width, height)
  \/ \E d \in {<<50, 50>>, <<-50, -50>>, <<50, 0>>, <<-50, 0>>, <<0, 50>>,
                <<0, -50>>} : resizeWindow(d[1], d[2])
  \/ \E dragged \in {winBounds, [width |-> 500, height |-> 400]} :
       handleWindowResize(dragged)

\* ------------------------------------------------------------ specifications
Init == InitMain /\ InitHook /\ InitLang("pl-PL") /\ InitApp /\ InitWindow

Next == NextMain \/ NextHook

Spec == Init /\ [][Next]_vars

\* the main process alone, the renderer idle
InitMainOnly ==
  /\ InitMain
  /\ InitHook
  /\ InitLang("pl-PL")
  /\ InitApp
  /\ InitWindow
  /\ supported
  /\ ~autoStart

SpecMain == InitMainOnly /\ [][NextMain]_vars

\* the renderer hook alone, the main process idle
InitHookOnly ==
  /\ InitMain
  /\ InitHook
  /\ InitLang("pl-PL")
  /\ InitApp
  /\ InitWindow
  /\ config.apiProvider = "openai"
  /\ config.apiKey = "k1"

SpecHook == InitHookOnly /\ [][NextHook]_vars

\* the hook mounted with either language and autoStart = false
InitLangOnly ==
  /\ InitMain
  /\ InitHook
  /\ \E l \in Languages : InitLang(l)
  /\ InitApp
  /\ InitWindow
  /\ config.apiProvider = "openai"
  /\ config.apiKey = "k1"
  /\ ~autoStart

SpecLang == InitLangOnly /\ [][NextLang]_vars

\* the application after its first render, the engine present or not
InitAppOnly ==
  /\ InitMain
  /\ InitHook
  /\ InitLang("pl-PL")
  /\ InitApp
  /\ InitWindow
  /\ config.apiProvider = "openai"
  /\ config.apiKey = "k1"
  /\ ~autoStart

SpecApp == InitAppOnly /\ [][NextApp]_vars

\* a session end to end
InitSession ==
  /\ InitAppOnly
  /\ supported

SpecSession == InitSession /\ [][NextSession]_vars

\* the application mounted over a stored configuration with any language
InitPrompt ==
  /\ config \in LanguageConfigs
  /\ config.apiProvider = "openai"
  /\ LET c == initializeAIClient(loadConfig, NoClients)
     IN /\ openaiClient = c.openai
        /\ geminiApiKey = c.gemini
        /\ anthropicClient = c.anthropic
  /\ transcript = <<>>
  /\ outstanding = EmptyBag
  /\ observed = <<>>
  /\ lastMain = Op("constructor")
  /\ extracted = {}
  /\ InitHook
  /\ InitLang("pl-PL")
  /\ InitApp
  /\ InitWindow
  /\ supported
  /\ ~autoStart

SpecPrompt == InitPrompt /\ [][NextPrompt]_vars

\* the main window alone
InitWindowOnly ==
  /\ InitMain
  /\ InitHook
  /\ InitLang("pl-PL")
  /\ InitApp
  /\ InitWindow
  /\ config.apiProvider = "openai"
  /\ config.apiKey = "k1"
  /\ supported
  /\ ~autoStart

SpecWindow == InitWindowOnly /\ [][NextWindow]_vars

\* extraction alone: the transcript is any of the bounded inputs
InitExtract ==
  /\ config \in ReplyConfigs
  /\ LET c == initializeAIClient(loadConfig, NoClients)
     IN /\ openaiClient = c.openai
        /\ geminiApiKey = c.gemini
        /\ anthropicClient = c.anthropic
  /\ transcript \in ExtractInputs
  /\ outstanding = EmptyBag
  /\ observed = <<>>
  /\ lastMain = Op("constructor")
  /\ extracted = {}
  /\ InitHook
  /\ InitLang("pl-PL")
  /\ InitApp
  /\ InitWindow
  /\ supported
  /\ ~autoStart

SpecExtract == InitExtract /\ [][NextExtract]_vars

\* the reply path alone: a key is configured, the transcript is fixed
InitReply ==
  /\ config \in LanguageConfigs
  /\ LET c == initializeAIClient(loadConfig, NoClients)
     IN /\ openaiClient = c.openai
        /\ geminiApiKey = c.gemini
        /\ anthropicClient = c.anthropic
  /\ transcript \in ReplyTranscripts
  /\ outstanding = EmptyBag
  /\ observed = <<>>
  /\ lastMain = Op("constructor")
  /\ extracted = {}
  /\ InitHook
  /\ InitLang("pl-PL")
  /\ InitApp
  /\ InitWindow
  /\ supported
  /\ ~autoStart

SpecReply == InitReply /\ [][NextReply]_vars

\* the hook listening (startListening() called, start event delivered), the
\* engine delivering result events
InitResult ==
  /\ InitMain
  /\ config.apiProvider = "openai"
  /\ config.apiKey = "k1"
  /\ supported = TRUE
  /\ autoStart = FALSE
  /\ isListening = TRUE
  /\ shouldRestartRef = TRUE
  /\ timers = EmptyBag
  /\ denied = FALSE
  /\ stopWatch = {}
  /\ errWatch = NoWatch
  /\ lastHook = LH("onstart", 1, "", 0, FALSE, FALSE)
  /\ hookTranscript = <<>>
  /\ appendCalls = <<>>
  /\ closure = [i \in Insts |-> NoClosure]
  /\ created = 1
  /\ recognitionRef = 1
  /\ engine = [i \in Insts |-> IF i = 1 THEN "running" ELSE "none"]
  /\ error = <<>>
  /\ InitLang("pl-PL")
  /\ InitApp
  /\ InitWindow

SpecResult == InitResult /\ [][NextResult]_vars

\* ------------------------------------------------------------------ claims
ClientOf(p) == ClientKey(Clients, p)

\* C1: a restart timer scheduled by an end event, with stopListening() called
\* before it fires, does not call the engine's start()
C1_StoppedTimerDoesNotStart ==
  ~(/\ lastHook.op = "timer"
    /\ lastHook.arg = "onend"
    /\ lastHook.tStopped
    /\ lastHook.starts > 0)

\* C2: a stopListening() that reaches the engine leaves the flag cleared and
\* the engine stopping, and the end event of that stop schedules no restart
\* and leaves isListening false
C2_StopClearsFlagFirst ==
  [][/\ (lastHook'.op = "stopListening" /\ lastHook'.arg = "stop")
          => /\ ~shouldRestartRef'
             /\ engine'[recognitionRef] \notin {"starting", "running"}
     /\ (lastHook'.op = "onend" /\ lastHook'.tStopped)
          => /\ timers' = timers
             /\ ~isListening']_vars

C2_Witness ==
  /\ lastHook.op = "onend"
  /\ lastHook.tStopped
  /\ closure[lastHook.inst].autoStart
  /\ ~shouldRestartRef
  /\ ~isListening
  /\ engine[lastHook.inst] = "idle"

\* C3: an end event with auto-restart enabled schedules exactly one restart
\* timer, and that timer's callback calls start() at most once
C3_OneRestartPerEnd ==
  [][/\ (/\ lastHook'.op = "onend"
         /\ closure[lastHook'.inst].autoStart
         /\ shouldRestartRef)
          => timers' = Schedule(timers, Timer("onend", lastHook'.inst, FALSE))
     /\ (lastHook'.op = "timer" /\ lastHook'.arg = "onend")
          => /\ lastHook'.starts <= 1
             /\ BagCardinality(timers') = BagCardinality(timers) - 1]_vars

C3_Witness ==
  /\ lastHook.op = "timer"
  /\ lastHook.arg = "onend"
  /\ ~lastHook.tStopped
  /\ lastHook.starts = 1
  /\ lastHook.accepted
  /\ engine[lastHook.inst] = "starting"

\* C4: after a 'not-allowed' error no end or error event schedules a restart
\* until startListening() is called again
C4_DeniedSchedulesNothing ==
  [][(denied /\ lastHook'.op \in {"onend", "onerror"})
        => BagCardinality(timers') <= BagCardinality(timers)]_vars

\* C5: a recoverable error is followed (by its own handler or by the end
\* event that closes the failed recognition) by a scheduled restart exactly
\* when auto-restart was enabled at the error
C5_RecoverableRestartsIffEnabled ==
  errWatch.done => (errWatch.sched <=> errWatch.enabled)

\* C6: at most one of openaiClient, geminiApiKey, anthropicClient is non-null
C6_AtMostOneClient ==
  Cardinality({ p \in Providers : ClientOf(p) # Null }) <= 1

C6_Witness ==
  /\ lastMain.op = "config-updated"
  /\ config.apiProvider = "anthropic"
  /\ anthropicClient # Null
  /\ openaiClient = Null
  /\ geminiApiKey = Null

\* C7: with no API key configured, replyToQuestion() on a transcript with a
\* question throws the no-provider error and sends nothing
C7_NoKeyNoRequest ==
  (/\ lastMain.op = "replyToQuestion"
   /\ ~Truthy(config.apiKey)
   /\ ~extractQuestion(transcript).isNull)
    => /\ lastMain.error = "No AI client available or API key not configured"
       /\ lastMain.sent = {}

C7_Witness ==
  /\ lastMain.op = "replyToQuestion"
  /\ config.apiProvider \in Providers
  /\ ~Truthy(config.apiKey)
  /\ ~extractQuestion(transcript).isNull
  /\ lastMain.sent = {}

\* C8: a request goes only to the provider config.apiProvider names; when
\* that provider has no client the call fails and nothing is sent
C8_OnlyConfiguredProvider ==
  lastMain.op = "replyToQuestion"
    => /\ \A r \in lastMain.sent : r.provider = config.apiProvider
       /\ (config.apiProvider \notin Providers
           \/ ClientOf(config.apiProvider) = Null)
            => (lastMain.sent = {} /\ lastMain.error # "")

C8_Witness ==
  /\ lastMain.op = "replyToQuestion"
  /\ config.apiProvider = "other"
  /\ openaiClient # Null
  /\ ~extractQuestion(transcript).isNull
  /\ lastMain.sent = {}
  /\ lastMain.error = "No AI client available or API key not configured"

\* C9: right after a config-updated notification naming one of the three
\* providers, that provider's client is built from the configured key exactly
\* when a key is present, and the two other clients are null
C9_ClientsMatchConfig ==
  (lastMain.op = "config-updated" /\ config.apiProvider \in Providers)
    => \A p \in Providers :
         ClientOf(p) = IF p = config.apiProvider /\ Truthy(config.apiKey)
                         THEN config.apiKey
                         ELSE Null

C9_Witness ==
  /\ lastMain.op = "config-updated"
  /\ config.apiProvider = "gemini"
  /\ config.apiKey = "k1"
  /\ geminiApiKey = "k1"
  /\ openaiClient = Null
  /\ anthropicClient = Null

\* C10: a value getTranscript() returned is a prefix of the transcript until
\* the next clear, and only appendToTranscript() and clearTranscript() change
\* the transcript
C10_TranscriptOnlyGrows ==
  /\ [](observed # <<>> => IsPrefix(observed[1], transcript))
  /\ [][transcript' # transcript
          => lastMain'.op \in {"appendToTranscript", "clearTranscript"}]_vars

C10_Witness ==
  /\ observed # <<>>
  /\ observed[1] # <<>>
  /\ Len(transcript) > Len(observed[1])
  /\ lastMain.op = "appendToTranscript"

\* C11: appendToTranscript(s) turns an empty transcript into s and a
\* non-empty transcript b into b, one space, s; a segment equal to what the
\* transcript already ends with is appended all the same
C11_AppendJoinsWithOneSpace ==
  [][lastMain'.op = "appendToTranscript"
       => transcript' = IF transcript = <<>>
                          THEN lastMain'.text
                          ELSE transcript \o <<" ">> \o lastMain'.text]_vars

C11_Witness ==
  /\ lastMain.op = "appendToTranscript"
  /\ lastMain.text = <<"h","i">>
  /\ transcript = <<"h","i"," ","h","i">>

\* C12: clearTranscript() leaves the transcript empty whatever it held; a
\* getTranscript() that follows returns the empty string and a clear that
\* follows changes nothing
C12_ClearEmpties ==
  [][/\ lastMain'.op = "clearTranscript" => transcript' = <<>>
     /\ (lastMain.op = "clearTranscript" /\ lastMain'.op = "getTranscript")
          => observed' = << <<>> >>
     /\ (lastMain.op = "clearTranscript" /\ lastMain'.op = "clearTranscript")
          => transcript' = transcript]_vars

C12_Witness ==
  /\ lastMain.op = "clearTranscript"
  /\ lastMain.heldText
  /\ transcript = <<>>

\* the texts of the final results an event carries, from resultIndex on
FinalTexts(event) ==
  LET carried == SubSeq(event.results, event.resultIndex, Len(event.results))
      IsFinal(r) == r.isFinal
      finals == SelectSeq(carried, IsFinal)
  IN [k \in 1..Len(finals) |-> finals[k].transcript]

\* b, one space, s; or s alone after nothing
JoinedBySpace(b, s) == IF b = <<>> THEN s ELSE b \o <<" ">> \o s

RECURSIVE SpaceSeparated(_)
SpaceSeparated(texts) ==
  IF texts = <<>> THEN <<>>
  ELSE JoinedBySpace(SpaceSeparated(SubSeq(texts, 1, Len(texts) - 1)),
                     texts[Len(texts)])

C14_BlankTranscriptNoQuestion ==
  [][(lastMain'.op = "replyToQuestion" /\ Trim(transcript) = <<>>)
       => /\ lastMain'.error = "No question found in transcript"
          /\ lastMain'.sent = {}
          /\ outstanding' = outstanding]_vars

C14_Witness ==
  /\ lastMain.op = "replyToQuestion"
  /\ transcript # <<>>
  /\ Trim(transcript) = <<>>
  /\ config.apiProvider = "openai"
  /\ openaiClient # Null
  /\ lastMain.error = "No question found in transcript"
  /\ outstanding = EmptyBag

\* --------------------------------------------- statements about extraction
NoPunctuation(t) == \A k \in 1..Len(t) : t[k] \notin {".", "!", "?"}

\* C15: for a non-blank transcript without '.', '!' or '?' extraction
\* returns the transcript unchanged
C15_FragmentReturnedUnchanged ==
  (/\ lastMain.op = "extractQuestion"
   /\ NoPunctuation(transcript)
   /\ Trim(transcript) # <<>>)
    => lastMain.result = Question(transcript)

IsLetter(c) ==
  \/ \E k \in 1..26 : c = LowerTab[k] \/ c = Upper[k]
  \/ c \in {"z'", "o'", "l/", "s'"}

\* s starts with the word w: w, then the end of s or a character that is
\* not a letter
StartsWithWord(s, w) ==
  /\ StartsWith(s, w)
  /\ (Len(s) = Len(w) \/ ~IsLetter(s[Len(w) + 1]))

QualifiesAsStated(sentence) ==
  \/ Includes(sentence, "?")
  \/ \E w \in englishQuestionWords \cup polishQuestionWords :
       StartsWithWord(sentence, w)

\* C16: the sentences extraction treats as questions are those that contain
\* '?' or start with a question word of either list, the word not being the
\* beginning of a longer word
C16_QualifiesOnWholeWords ==
  lastMain.op = "extractQuestion"
    => lastMain.hits =
         { i \in 1..Len(Sentences(transcript)) :
             QualifiesAsStated(Trim(Sentences(transcript)[i])) }

\* pieces lo..hi of a list with ". " between them
RECURSIVE DotJoined(_)
DotJoined(list) ==
  IF list = <<>> THEN <<>>
  ELSE IF Len(list) = 1 THEN list[1]
  ELSE DotJoined(SubSeq(list, 1, Len(list) - 1)) \o <<".", " ">>
       \o list[Len(list)]

EndingInQuestionMark(s) ==
  IF s # <<>> /\ s[Len(s)] = "?" THEN s ELSE s \o <<"?">>

\* sentences lo..hi of the transcript joined, trimmed, ending in '?'
Window(t, lo, hi) ==
  EndingInQuestionMark(Trim(DotJoined(SubSeq(Sentences(t), lo, hi))))

LastHit == CHOOSE h \in lastMain.hits : \A g \in lastMain.hits : g <= h

\* C17: when some sentence qualifies, the result is the sentences from two
\* before the last qualifying one (or from the first) up to it, joined,
\* trimmed and ending in one '?'
C17_WindowEndsAtLastQuestion ==
  (lastMain.op = "extractQuestion" /\ lastMain.hits # {})
    => /\ ~lastMain.result.isNull
       /\ lastMain.result.text =
            Window(transcript,
                   IF LastHit > 2 THEN LastHit - 2 ELSE 1, LastHit)

C17_Witness ==
  /\ lastMain.op = "extractQuestion"
  /\ transcript = <<"a",".","b",".","a",".","i","s",".","b",".">>
  /\ lastMain.hits = {4}
  /\ lastMain.result.text = <<"b",".", " ","a",".", " ","i","s","?">>

\* C18: when the transcript has sentences and none qualifies, the result is
\* the last three sentences (all of them when there are fewer) joined,
\* trimmed and ending in '?'
C18_FallbackLastThree ==
  (/\ lastMain.op = "extractQuestion"
   /\ lastMain.hits = {}
   /\ Sentences(transcript) # <<>>)
    => LET n == Len(Sentences(transcript))
       IN /\ ~lastMain.result.isNull
          /\ lastMain.result.text =
               Window(transcript, IF n > 3 THEN n - 2 ELSE 1, n)

C18_Witness ==
  /\ lastMain.op = "extractQuestion"
  /\ transcript = <<"a",".","b",".","b",".","a",".">>
  /\ lastMain.hits = {}
  /\ lastMain.result.text = <<"b",".", " ","b",".", " ","a","?">>

\* C19: on every input extraction returns either the no-question result or
\* a non-empty string, the no-question result exactly on blank input
C19_ExtractionTotal ==
  lastMain.op = "extractQuestion"
    => /\ \/ lastMain.result = NoQuestion
          \/ /\ lastMain.result = Question(lastMain.result.text)
             /\ lastMain.result.text # <<>>
       /\ lastMain.result.isNull <=> Trim(transcript) = <<>>

C19_Witness ==
  /\ lastMain.op = "extractQuestion"
  /\ transcript = <<"?", ".", " ", "?">>
  /\ lastMain.result = Question(transcript)

\* C20: whatever provider, model and transcription language are configured,
\* extraction returns the same result for the same transcript
C20_ResultIndependentOfConfig ==
  \A p \in extracted : \A q \in extracted : p.result = q.result

C20_Witness ==
  /\ transcript = <<"C","o",".","a">>
  /\ \E p \in extracted : \E q \in extracted :
       /\ p.config.transcriptionLanguage = "en-US"
       /\ q.config.transcriptionLanguage = "pl-PL"
       /\ p.config.apiProvider # q.config.apiProvider
       /\ p.config.solutionModel # q.config.solutionModel
       /\ p.result = Question(<<"C","o","?">>)
       /\ q.result = p.result

\* C21: when the provider call fails, replyToQuestion() rejects with the very
\* error the call raised, and the failed request is not issued again: the
\* step only takes that request out of the requests in flight.
C21_FailureRethrownUnchanged ==
  [][(lastMain'.op = "providerSettles" /\ lastMain'.outcome.kind = "error")
       => /\ lastMain'.result = [kind |-> "thrown", error |-> lastMain'.outcome.error]
          /\ BagCardinality(outstanding') = BagCardinality(outstanding) - 1
          /\ \A r \in BagToSet(outstanding') :
               CopiesIn(r, outstanding') <= CopiesIn(r, outstanding)]_vars

C21_Witness ==
  /\ lastMain.op = "providerSettles"
  /\ lastMain.provider = "anthropic"
  /\ lastMain.outcome.kind = "error"
  /\ lastMain.outcome.error = "rate-limit"
  /\ lastMain.result.kind = "thrown"
  /\ outstanding = EmptyBag

\* C22: a successful response without the expected answer field makes
\* replyToQuestion() return "No answer generated" and never throw, for each
\* of the three providers.
C22_AbsentAnswerDefaults ==
  (/\ lastMain.op = "providerSettles"
   /\ lastMain.outcome.kind = "response"
   /\ lastMain.outcome.response \in AbsentResponses(lastMain.provider))
    => lastMain.result = [kind |-> "returned", answer |-> "No answer generated"]

\* C23: the system prompt of a request is the Polish prompt exactly when the
\* stored transcription language is pl-PL, and the English prompt for en-US,
\* for an unset language and for any other value, whatever the provider.
C23_PolishPromptOnlyForPlPL ==
  (lastMain.op = "replyToQuestion" /\ lastMain.sent # {})
    => \A r \in lastMain.sent :
         /\ r.systemPrompt \in {PolishPrompt, EnglishPrompt}
         /\ r.systemPrompt = PolishPrompt <=> config.transcriptionLanguage = "pl-PL"

C23_Witness ==
  /\ lastMain.op = "replyToQuestion"
  /\ config.transcriptionLanguage = ""
  /\ config.apiProvider = "anthropic"
  /\ \E r \in lastMain.sent : r.systemPrompt = EnglishPrompt /\ r.provider = "anthropic"

\* every reply that can find a question and a client: a question is in the
\* transcript and the stored provider has a key
ReplyCanProceed ==
  /\ ~extractQuestion(transcript).isNull
  /\ config.apiProvider \in Providers
  /\ config.apiKey # ""

\* C29: each replyToQuestion() that finds a question and a configured provider
\* issues exactly one provider request; requests already in flight stay in
\* flight, so an overlapping invocation is neither suppressed nor merged.
C29_OneRequestPerInvocation ==
  [][(lastMain'.op = "replyToQuestion" /\ ReplyCanProceed)
       => /\ Cardinality(lastMain'.sent) = 1
          /\ \A r \in lastMain'.sent :
               /\ CopiesIn(r, outstanding') = CopiesIn(r, outstanding) + 1
               /\ \A q \in BagToSet(outstanding) \ {r} :
                    CopiesIn(q, outstanding') = CopiesIn(q, outstanding)
               /\ BagCardinality(outstanding') = BagCardinality(outstanding) + 1]_vars

C29_Witness ==
  /\ lastMain.op = "replyToQuestion"
  /\ \E r \in lastMain.sent : CopiesIn(r, outstanding) = 2

C27_UnsupportedIsTerminal ==
  ~supported
    => /\ error # <<>>
       /\ ~isListening
       /\ recognitionRef = 0
       /\ created = 0
       /\ \A i \in Insts : engine[i] = "none"
       /\ lastHook.starts = 0

C27_Witness ==
  /\ ~supported
  /\ lastHook.op = "timer"
  /\ lastHook.arg = "startRetry"
  /\ error = NotInitialized
  /\ ~isListening

\* C25: a change of the transcription language while recognition is running
\* sets the live recognition object's lang to the new language; the step calls
\* none of stop(), abort() and start(), constructs no recognition object and
\* leaves isListening as it is.
C25_LanguageChangeOnlySetsLang ==
  [][(/\ lastHook'.op = "languageChanged"
      /\ recognitionRef # 0
      /\ engine[recognitionRef] = "running")
       => /\ lang'[recognitionRef] = transcriptionLanguage'
          /\ lastHook'.starts = 0
          /\ UNCHANGED <<engine, created, recognitionRef, isListening,
                         shouldRestartRef, timers>>]_vars

C25_Witness ==
  /\ lastHook.op = "languageChanged"
  /\ isListening
  /\ engine[recognitionRef] = "running"
  /\ transcriptionLanguage = "en-US"
  /\ lang[recognitionRef] = "en-US"

\* C24: in the application the engine's start() is called only while a
\* session is active, that is after a handleStartSession(language) call that
\* no handleStopSession() has followed.
C24_StartOnlyInsideSession ==
  [][lastHook'.starts > 0 => sessionActive]_vars

\* C28: a 'not-allowed' recognition error sets the hook's error state and
\* makes the application show exactly one error toast.
C28_NotAllowedSurfacedOnce ==
  [][(lastHook'.op = "onerror" /\ lastHook'.arg = "not-allowed"
        /\ lastHook' # lastHook)
       => /\ error' = <<"Speech recognition error: ", "not-allowed">>
          /\ Len(toasts') = 1]_vars

\* C30: each press of Cmd/Ctrl+B with the main window open toggles its
\* visibility: a shown window becomes hidden and a hidden one shown.
C30_CmdBToggles ==
  [][(lastWindow' = "CmdB" /\ mainWindow = "open")
       => winVisible' = ~winVisible]_vars

\* C35: every request built by replyToQuestion() carries the answer-length
\* budget of 1000 tokens, whichever of the three providers it goes to, and
\* the sampling temperature is in the request only when the provider is
\* OpenAI.
C35_BudgetInEveryRequest ==
  (lastMain.op = "replyToQuestion" /\ lastMain.sent # {})
    => \A r \in lastMain.sent :
         /\ r.params.max_tokens = {MaxTokens}
         /\ (r.params.temperature # {}) <=> (r.provider = "openai")

\* C39: with no solution model configured, the request to Anthropic names
\* claude-3-5-sonnet-20241022, and gpt-4o-mini is named only in requests to
\* OpenAI.
C39_DefaultModelPerProvider ==
  (/\ lastMain.op = "replyToQuestion"
   /\ lastMain.sent # {}
   /\ ~Truthy(config.solutionModel))
    => \A r \in lastMain.sent :
         /\ (r.provider = "anthropic")
              => (r.model = "claude-3-5-sonnet-20241022")
         /\ (r.model = "gpt-4o-mini") => (r.provider = "openai")

\* C32: replyToQuestion() sends the question extracted from the transcript
\* as it is when it is invoked and changes neither the transcript nor a
\* provider client; an append or a clear made while the call is in flight
\* leaves every request in flight as it was sent, and the settling of the
\* call returns the answer of that request and leaves the transcript alone.
C32_ReplyReadsTranscriptOnce ==
  [][/\ (lastMain'.op = "replyToQuestion")
          => /\ UNCHANGED <<transcript, openaiClient, geminiApiKey,
                            anthropicClient>>
             /\ \A r \in lastMain'.sent :
                  r.question = extractQuestion(transcript).text
     /\ (lastMain'.op \in {"appendToTranscript", "clearTranscript"})
          => UNCHANGED outstanding
     /\ (lastMain'.op = "providerSettles")
          => /\ UNCHANGED <<transcript, openaiClient, geminiApiKey,
                            anthropicClient>>
             /\ BagCardinality(outstanding')
                  = BagCardinality(outstanding) - 1]_vars

\* a clear of a transcript that held text, made while a request whose
\* question came from that text is in flight
C32_Witness ==
  /\ lastMain.op = "clearTranscript"
  /\ lastMain.heldText
  /\ \E r \in BagToSet(outstanding) : r.question # <<>>

\* C31: a restart or retry timer of a recognition instance that the hook's
\* cleanup has stopped and aborted does not call that instance's start(),
\* also when the hook has been initialised again before the timer fires, and
\* at most one instance created by the hook is started at any time.
C31_CleanedInstanceNotRestarted ==
  /\ ~(/\ lastHook.op = "timer"
       /\ lastHook.arg \in {"onend", "onerror"}
       /\ lastHook.starts > 0
       /\ lastHook.inst # recognitionRef)
  /\ Cardinality({ i \in 1..created :
                     engine[i] \in {"starting", "running"} }) <= 1

\* C36: in the application, which mounts the hook with autoStart = false, an
\* end event or an error event of the engine schedules no timer, whatever the
\* should-restart flag holds, and no restart timer of an end or error event
\* ever calls start(): after an end the engine is started again only by a
\* start the user asked for.
C36_NoRestartWithoutAutoStart ==
  [][/\ (lastHook'.op \in {"onend", "onerror"}) => (timers' = timers)
     /\ (lastHook'.starts > 0)
          => ~(lastHook'.op = "timer"
                 /\ lastHook'.arg \in {"onend", "onerror"})]_vars

\* an end event handled while the should-restart flag is set
C36_Witness ==
  /\ lastHook.op = "onend"
  /\ shouldRestartRef
  /\ ~autoStart
  /\ engine[lastHook.inst] = "idle"
  /\ ~isListening

\* C34: after a session is started from the dialog with a language, every
\* call of the engine's start() finds the recognition object's lang equal to
\* that language, whatever language the session before used.
C34_LangIsSessionLanguageAtStart ==
  [][(lastHook'.starts > 0)
       => lang'[lastHook'.inst] = transcriptionLanguage']_vars

\* the session timer calls start() after the dialog changed the language
\* from the initial pl-PL to en-US
C34_Witness ==
  /\ lastHook.op = "timer-session"
  /\ lastHook.starts > 0
  /\ lastHook.accepted
  /\ transcriptionLanguage = "en-US"
  /\ lang[recognitionRef] = "en-US"

\* C37: once every bridge call made by the result events and the clears has
\* been handled, in order, the main-process transcript equals the renderer
\* transcript without its leading and trailing whitespace.
C37_MainIsRendererTrimmed ==
  (appendCalls = <<>>) => (transcript = Trim(hookTranscript))

WordsOf(t) == SelectSeq(t, LAMBDA c : ~IsWs(c))

C38_DialogLanguageSelectsPrompt ==
  [][(/\ lastMain'.op = "replyToQuestion"
      /\ outstanding' # outstanding
      /\ sessionActive)
       => \A r \in lastMain'.sent :
            r.systemPrompt = IF transcriptionLanguage = "pl-PL"
                               THEN PolishPrompt
                               ELSE EnglishPrompt]_vars

\* C40: the window is marked as manually resized only after the user has
\* dragged an edge or used a resize shortcut, and until then every
\* setWindowDimensions() call on the open window applies its bounds.
C40_AutoSizingNotManual ==
  /\ [](isManuallyResized => userResized)
  /\ [][(/\ lastWindow' = "setWindowDimensions"
         /\ mainWindow = "open"
         /\ ~userResized)
          => /\ ~isManuallyResized
             /\ winBounds' = windowSize']_vars

====
